---------------------------- MODULE Spec2Model ----------------------------
(***************************************************************************)
(* A model of the shacl-generator core: the Field Registry                 *)
(* (datafields.py), its SHACL importer, and the generation pipeline        *)
(* (generator.py, llm.py).                                                 *)
(*                                                                         *)
(* Python strings are sequences of one-character strings, so that          *)
(* split('#'), lower(), startswith() and substring tests are computed      *)
(* the way the code computes them.                                         *)
(***************************************************************************)
EXTENDS Naturals, Sequences, FiniteSets, TLC

VARIABLES
    fields,     \* DataFieldRegistry.fields: insertion-ordered dict, a sequence of [key, field]
    disk,       \* the registry file at storage_path: [exists, data]
    pre,        \* [fields, disk] when the operation in progress (or last finished) was called
    last,       \* the last finished registry operation: [op, a1, a2, raised, ret]
    gen,        \* one generate_shape / improve_shape call of ShaclGenerator
    imp,        \* one import_from_shacl call of DataFieldRegistry
    ctx,        \* GeneratorContext.feedback_history and the ExampleStore of the generator
    inst,       \* InstanceStore: the instances dict, the instance directories, the last call
    shp,        \* ShapeStore: the shapes dict, the shape directories, the clock, the last call
    app,        \* the Generation Journey page: its session state and the request in progress
    wr          \* two processes writing the registry file, each with a registry of its own

vars == <<fields, disk, pre, last, gen, imp, ctx, inst, shp, app, wr>>

---------------------------------------------------------------------------
(* Bounds of the model.                                                    *)

MaxFields == 2      \* most entries the registry holds in the registry specification
MaxListLen == 2     \* most cells of an sh:in list in the import documents
MaxItems == 3       \* cap on the items a list walk collects (reached only on a cyclic list)
MaxCalls == 2       \* import_from_shacl calls in one behaviour

---------------------------------------------------------------------------
(* Python strings.                                                         *)

S_empty == <<>>
S_xsd == <<"x", "s", "d", ":">>
S_ff == <<"f", "f", ":">>
S_ex == <<"e", "x", ":">>
S_string == <<"s", "t", "r", "i", "n", "g">>
S_integer == <<"i", "n", "t", "e", "g", "e", "r">>
S_xsd_string == S_xsd \o S_string
S_xsd_integer == S_xsd \o S_integer
S_field_for == <<"F", "i", "e", "l", "d", " ", "f", "o", "r", " ">>

UpperToLower ==
    [A |-> "a", B |-> "b", C |-> "c", D |-> "d", E |-> "e", F |-> "f", G |-> "g",
     H |-> "h", I |-> "i", J |-> "j", K |-> "k", L |-> "l", M |-> "m", N |-> "n",
     O |-> "o", P |-> "p", Q |-> "q", R |-> "r", S |-> "s", T |-> "t", U |-> "u",
     V |-> "v", W |-> "w", X |-> "x", Y |-> "y", Z |-> "z"]

\* str.lower()
Lower(s) == [i \in 1..Len(s) |-> IF s[i] \in DOMAIN UpperToLower THEN UpperToLower[s[i]] ELSE s[i]]

\* a in b, for strings
Contains(b, a) == \E i \in 0..(Len(b) - Len(a)) : SubSeq(b, i + 1, i + Len(a)) = a

\* s.startswith(p)
StartsWith(s, p) == Len(s) >= Len(p) /\ SubSeq(s, 1, Len(p)) = p

\* s.split('#')[-1]: what follows the last '#', the whole string when there is none
AfterLastHash(s) ==
    LET H == {i \in 1..Len(s) : s[i] = "#"}
    IN  IF H = {} THEN s
        ELSE SubSeq(s, (CHOOSE i \in H : \A j \in H : j <= i) + 1, Len(s))

---------------------------------------------------------------------------
(* DataField and the registry dict.                                        *)

DataField(name, path, datatype, description, examples, synonyms, constraints) ==
    [name |-> name, path |-> path, datatype |-> datatype, description |-> description,
     examples |-> examples, synonyms |-> synonyms, constraints |-> constraints]

NoConstraints == [k \in {} |-> <<>>]

\* position of key k in the dict d, 0 when absent
IndexOf(d, k) ==
    IF \E i \in 1..Len(d) : d[i].key = k
    THEN CHOOSE i \in 1..Len(d) : d[i].key = k
    ELSE 0

HasKey(d, k) == IndexOf(d, k) # 0

\* d[k] = v: an existing key keeps its position, a new key goes last
DictSet(d, k, v) ==
    IF HasKey(d, k)
    THEN [d EXCEPT ![IndexOf(d, k)] = [key |-> k, field |-> v]]
    ELSE Append(d, [key |-> k, field |-> v])

Keys(d) == {d[i].key : i \in 1..Len(d)}

\* The outcomes of save(): written, or open() raised and the file is as it was.
SaveOutcomes == {"ok", "fail"}

\* yaml.dump and yaml.safe_load of a str. A scalar is written plain when the plain
\* text would be read back as a str, and quoted otherwise; a plain scalar is read
\* as null, bool, int or float when it looks like one, a quoted scalar as a str.
DigitChars == {"0", "1", "2", "3", "4", "5", "6", "7", "8", "9"}
YamlIndicators ==
    {"-", "?", ":", ",", "[", "]", "{", "}", "#", "&", "*", "!", "|", ">", "%", "@", "="}
YamlNullWords == {<<>>, <<"~">>, <<"n", "u", "l", "l">>}
YamlBoolWords ==
    {<<"t", "r", "u", "e">>, <<"f", "a", "l", "s", "e">>, <<"y", "e", "s">>, <<"n", "o">>,
     <<"o", "n">>, <<"o", "f", "f">>}

\* lower case, upper case or capitalised
YamlCaseForm(s) ==
    \/ \A i \in 1..Len(s) : s[i] \notin DOMAIN UpperToLower
    \/ \A i \in 1..Len(s) : s[i] \in DOMAIN UpperToLower
    \/ /\ s # <<>>
       /\ s[1] \in DOMAIN UpperToLower
       /\ \A i \in 2..Len(s) : s[i] \notin DOMAIN UpperToLower

YamlUnsigned(s) == IF s # <<>> /\ s[1] \in {"-", "+"} THEN Tail(s) ELSE s

YamlIsInt(s) ==
    \E u \in {YamlUnsigned(s)} :
        /\ u # <<>>
        /\ u[1] \in DigitChars
        /\ \A i \in 1..Len(u) : u[i] \in DigitChars \cup {"_"}

YamlIsFloat(s) ==
    \E u \in {YamlUnsigned(s)} :
        /\ u # <<>>
        /\ u[1] \in DigitChars
        /\ \E d \in 2..Len(u) :
              /\ u[d] = "."
              /\ \A i \in 1..Len(u) : i # d => u[i] \in DigitChars \cup {"_"}

\* the tag the implicit resolver gives a plain scalar
YamlImplicitTag(s) ==
    CASE s \in YamlNullWords \/ (YamlCaseForm(s) /\ Lower(s) = <<"n", "u", "l", "l">>) -> "null"
      [] YamlCaseForm(s) /\ Lower(s) \in YamlBoolWords -> "bool"
      [] YamlIsInt(s) -> "int"
      [] YamlIsFloat(s) -> "float"
      [] OTHER -> "str"

\* the emitter's analysis of a one-line text without quote characters: may it stand
\* unquoted at all
YamlPlainAllowed(s) ==
    /\ s # <<>>
    /\ s[1] \notin YamlIndicators \cup {" "}
    /\ s[Len(s)] # " "
    /\ \A i \in 1..(Len(s) - 1) :
          ~(s[i] = ":" /\ s[i + 1] = " ") /\ ~(s[i] = " " /\ s[i + 1] = "#")

\* a plausible slip: every str is written plain
yaml_represent_str_plain(s) == [style |-> "plain", text |-> s]

yaml_represent_str(s) ==
    [style |-> IF YamlPlainAllowed(s) /\ YamlImplicitTag(s) = "str" THEN "plain" ELSE "quoted",
     text |-> s]

\* the Python value of a scalar node: a str is its text; a value of another type is
\* marked by a first element that no character is
yaml_construct_scalar(node) ==
    IF node.style = "quoted" \/ YamlImplicitTag(node.text) = "str" THEN node.text
    ELSE <<YamlImplicitTag(node.text)>> \o node.text

yaml_represent_list(l) == [j \in 1..Len(l) |-> yaml_represent_str(l[j])]
yaml_construct_list(n) == [j \in 1..Len(n) |-> yaml_construct_scalar(n[j])]

\* the constraints mapping: str values, and under allowed_values a list of {id, label}
yaml_represent_constraints(c) ==
    [k \in DOMAIN c |->
        IF k = "allowed_values"
        THEN [j \in 1..Len(c[k]) |-> [id |-> yaml_represent_str(c[k][j].id),
                                      label |-> yaml_represent_str(c[k][j].label)]]
        ELSE yaml_represent_str(c[k])]

yaml_construct_constraints(n) ==
    [k \in DOMAIN n |->
        IF k = "allowed_values"
        THEN [j \in 1..Len(n[k]) |-> [id |-> yaml_construct_scalar(n[k][j].id),
                                      label |-> yaml_construct_scalar(n[k][j].label)]]
        ELSE yaml_construct_scalar(n[k])]

\* the mapping save() dumps: one entry per item of fields, in dict order
DumpFields(fs) ==
    [i \in 1..Len(fs) |->
        [key |-> yaml_represent_str(fs[i].key),
         doc |-> [name |-> yaml_represent_str(fs[i].field.name),
                  path |-> yaml_represent_str(fs[i].field.path),
                  datatype |-> yaml_represent_str(fs[i].field.datatype),
                  description |-> yaml_represent_str(fs[i].field.description),
                  examples |-> yaml_represent_list(fs[i].field.examples),
                  synonyms |-> yaml_represent_list(fs[i].field.synonyms),
                  constraints |-> yaml_represent_constraints(fs[i].field.constraints)]]]

\* a plausible alternative: the entries of the file that the registry lacks are kept
save_merging(fs, dk, outcome) ==
    IF outcome = "ok"
    THEN [exists |-> TRUE,
          data |-> SelectSeq(dk.data, LAMBDA e : \A i \in 1..Len(fs) :
                                                   yaml_represent_str(fs[i].key) # e.key)
                   \o DumpFields(fs)]
    ELSE dk

\* save(): the file is rewritten from self.fields alone
save(fs, dk, outcome) ==
    IF outcome = "ok" THEN [exists |-> TRUE, data |-> DumpFields(fs)] ELSE dk

\* a plausible slip: load() without the `if data:` test
load_unguarded(fs, dk) ==
    IF ~dk.exists THEN fs
    ELSE [i \in 1..Len(dk.data) |->
            [key |-> yaml_construct_scalar(dk.data[i].key),
             field |-> DataField(yaml_construct_scalar(dk.data[i].doc.name),
                                 yaml_construct_scalar(dk.data[i].doc.path),
                                 yaml_construct_scalar(dk.data[i].doc.datatype),
                                 yaml_construct_scalar(dk.data[i].doc.description),
                                 yaml_construct_list(dk.data[i].doc.examples),
                                 yaml_construct_list(dk.data[i].doc.synonyms),
                                 yaml_construct_constraints(dk.data[i].doc.constraints))]]

\* load(): a missing file or an empty mapping leaves self.fields alone
load(fs, dk) ==
    IF ~dk.exists THEN fs
    ELSE IF dk.data = <<>> THEN fs
    ELSE [i \in 1..Len(dk.data) |->
            [key |-> yaml_construct_scalar(dk.data[i].key),
             field |-> DataField(yaml_construct_scalar(dk.data[i].doc.name),
                                 yaml_construct_scalar(dk.data[i].doc.path),
                                 yaml_construct_scalar(dk.data[i].doc.datatype),
                                 yaml_construct_scalar(dk.data[i].doc.description),
                                 yaml_construct_list(dk.data[i].doc.examples),
                                 yaml_construct_list(dk.data[i].doc.synonyms),
                                 yaml_construct_constraints(dk.data[i].doc.constraints))]]

\* add_field(field): the dict is assigned first, then saved
add_field(fs, dk, field, outcome) ==
    [fields |-> DictSet(fs, field.name, field),
     disk |-> save(DictSet(fs, field.name, field), dk, outcome),
     raised |-> outcome # "ok"]

RECURSIVE ExactPass(_, _, _)
ExactPass(fs, term, i) ==
    IF i > Len(fs) THEN 0
    ELSE IF Lower(term) = Lower(fs[i].field.name) THEN i
    ELSE IF \E j \in 1..Len(fs[i].field.synonyms) :
                Lower(term) = Lower(fs[i].field.synonyms[j]) THEN i
    ELSE ExactPass(fs, term, i + 1)

RECURSIVE PartialPass(_, _, _)
PartialPass(fs, term, i) ==
    IF i > Len(fs) THEN 0
    ELSE IF Contains(Lower(fs[i].field.name), Lower(term)) THEN i
    ELSE IF \E j \in 1..Len(fs[i].field.synonyms) :
                Contains(Lower(fs[i].field.synonyms[j]), Lower(term)) THEN i
    ELSE IF \E j \in 1..Len(fs[i].field.examples) :
                Contains(Lower(fs[i].field.examples[j]), Lower(term)) THEN i
    ELSE PartialPass(fs, term, i + 1)

\* a plausible slip: one loop that accepts an exact or a partial match per field
RECURSIVE SinglePass(_, _, _)
SinglePass(fs, term, i) ==
    IF i > Len(fs) THEN 0
    ELSE IF \/ Contains(Lower(fs[i].field.name), Lower(term))
            \/ \E j \in 1..Len(fs[i].field.synonyms) :
                    Contains(Lower(fs[i].field.synonyms[j]), Lower(term))
            \/ \E j \in 1..Len(fs[i].field.examples) :
                    Contains(Lower(fs[i].field.examples[j]), Lower(term)) THEN i
    ELSE SinglePass(fs, term, i + 1)

find_matching_field_single_pass(fs, term) == SinglePass(fs, term, 1)

\* find_matching_field(term): the position of the returned field, 0 for None
find_matching_field(fs, term) ==
    IF ExactPass(fs, term, 1) # 0 THEN ExactPass(fs, term, 1) ELSE PartialPass(fs, term, 1)

\* a plausible slip: the prefix check is missing
update_field_datatype_unchecked(fs, field_name, new_datatype) ==
    IF ~HasKey(fs, field_name) THEN [raised |-> TRUE, fields |-> fs]
    ELSE [raised |-> FALSE,
          fields |-> [fs EXCEPT ![IndexOf(fs, field_name)].field.datatype = new_datatype]]

update_field_datatype(fs, field_name, new_datatype) ==
    IF ~HasKey(fs, field_name) THEN [raised |-> TRUE, fields |-> fs]
    ELSE IF ~StartsWith(new_datatype, S_xsd) THEN [raised |-> TRUE, fields |-> fs]
    ELSE [raised |-> FALSE,
          fields |-> [fs EXCEPT ![IndexOf(fs, field_name)].field.datatype = new_datatype]]

---------------------------------------------------------------------------
(* The registry specification: the public operations of DataFieldRegistry  *)
(* called in any order on one registry object.                             *)

S_age == <<"a", "g", "e">>
S_Age == <<"A", "g", "e">>
S_ages == <<"a", "g", "e", "s">>
S_old == <<"o", "l", "d">>
S_Years == <<"Y", "e", "a", "r", "s">>
S_year == <<"y", "e", "a", "r">>
S_in_old_age == <<"i", "n", " ", "o", "l", "d", " ", "a", "g", "e">>
S_zip == <<"z", "i", "p">>
S_17 == <<"1", "7">>
S_no == <<"n", "o">>

\* the fields a caller adds (add_field takes any DataField)
CandidateFields ==
    { DataField(S_ages, S_ex \o S_ages, S_xsd_string, S_field_for \o S_ages,
                <<>>, <<S_Years>>, NoConstraints),
      DataField(S_Age, S_ex \o S_Age, S_xsd_integer, S_field_for \o S_Age,
                <<S_17>>, <<S_no>>, NoConstraints),
      DataField(S_zip, S_ex \o S_zip, S_xsd_string, S_field_for \o S_zip,
                <<S_in_old_age>>, <<S_old>>, NoConstraints) }

RegTerms == {S_age, S_year, S_old, S_xsd, S_empty}
RegNames == {S_ages, S_Age, S_age}
RegDatatypes == {S_xsd_integer, S_integer, S_xsd}

\* a generator constructed without an ExampleStore and with an empty context
CtxIdle == [feedback_history |-> <<>>, has_store |-> FALSE, examples |-> <<>>]

\* an InstanceStore over an empty directory, nothing called yet. instances maps a
\* key to its CitizenInstance, dirs maps a directory name to what the directory
\* holds; pre is the store before the last call and last describes that call
InstIdle ==
    [instances |-> <<>>, dirs |-> <<>>,
     pre |-> [instances |-> <<>>, dirs |-> <<>>],
     last |-> [op |-> "none", id |-> <<>>, properties |-> <<>>, outcome |-> "none",
               field |-> <<>>, ret |-> <<>>, consulted |-> FALSE, answer |-> <<>>]]

\* a ShapeStore over an empty directory, nothing called yet; clock is the time
\* datetime.now() last returned
ShpIdle ==
    [shapes |-> <<>>, dirs |-> <<>>, clock |-> 0,
     pre |-> [shapes |-> <<>>, dirs |-> <<>>],
     last |-> [op |-> "none", id |-> <<>>, graph |-> <<>>, description |-> <<>>,
               outcome |-> "none", now |-> 0]]

\* the Generation Journey page before any button was pressed: no request in
\* progress, no current_shape / current_text_id in the session state; events are
\* the calls the request in progress has made so far
AppIdle ==
    [stage |-> "idle", request |-> "none", outcome |-> "none", has_shape |-> FALSE,
     current_shape |-> <<>>, current_text_id |-> <<>>, events |-> <<>>,
     shapes_before |-> <<>>]

\* two processes that have not yet constructed their DataFieldRegistry; added are
\* the names a process has added and saved since it loaded the file
Writers == {"w1", "w2"}
WrIdle ==
    [reg |-> [w \in Writers |-> [loaded |-> FALSE, fields |-> <<>>, added |-> {}]],
     last |-> [op |-> "none", writer |-> "none", name |-> <<>>, raised |-> FALSE]]

\* no generate_shape / improve_shape call in progress
GenIdle ==
    [pc |-> "idle", kind |-> "none", llmCalls |-> 0, repairCalls |-> 0,
     parse1 |-> "none", parse2 |-> "none", hasGraph |-> FALSE, new_fields |-> <<>>,
     text_id |-> <<>>, examples |-> <<>>, feedback |-> <<>>,
     text |-> <<>>, keysAtScan |-> {}, extracted |-> <<>>, handed |-> <<>>]

NoCall == [op |-> "none", a1 |-> <<>>, a2 |-> <<>>, raised |-> FALSE, ret |-> 0]
\* no import_from_shacl call made yet; doc is the document the caller passes
ImpIdle ==
    [pc |-> "idle", calls |-> 0,
     doc |-> [valid |-> TRUE, triples |-> <<>>, kind |-> "none", members |-> <<>>,
              ending |-> "none"],
     g |-> <<>>, answer_options |-> <<>>, todo |-> <<>>, imported |-> {},
     processed |-> 0, failed |-> {}, constraints |-> [k \in {} |-> <<>>],
     oc |-> <<>>, in_values |-> <<>>, allowed_values |-> <<>>, collected |-> <<>>,
     list_node |-> [kind |-> "none", s |-> <<>>, lang |-> "", dt |-> ""],
     items |-> <<>>, tick |-> 0, result |-> {},
     ioFailed |-> FALSE, after1 |-> <<>>, ret1 |-> {}]

InitRegistry ==
    /\ fields = <<>>
    /\ disk = [exists |-> FALSE, data |-> <<>>]
    /\ pre = [fields |-> <<>>, disk |-> [exists |-> FALSE, data |-> <<>>]]
    /\ last = NoCall
    /\ gen = GenIdle
    /\ imp = ImpIdle
    /\ ctx = CtxIdle
    /\ inst = InstIdle
    /\ shp = ShpIdle
    /\ app = AppIdle
    /\ wr = WrIdle

RegAddField ==
    \E f \in CandidateFields, outcome \in SaveOutcomes :
        /\ HasKey(fields, f.name) \/ Len(fields) < MaxFields
        /\ pre' = [fields |-> fields, disk |-> disk]
        /\ fields' = add_field(fields, disk, f, outcome).fields
        /\ disk' = add_field(fields, disk, f, outcome).disk
        /\ last' = [op |-> "add_field", a1 |-> f.name, a2 |-> <<>>,
                    raised |-> add_field(fields, disk, f, outcome).raised, ret |-> 0]
        /\ UNCHANGED <<gen, imp, ctx, inst, shp, app, wr>>

RegFindMatchingField ==
    \E term \in RegTerms :
        /\ pre' = [fields |-> fields, disk |-> disk]
        /\ last' = [op |-> "find_matching_field", a1 |-> term, a2 |-> <<>>,
                    raised |-> FALSE, ret |-> find_matching_field(fields, term)]
        /\ UNCHANGED <<fields, disk, gen, imp, ctx, inst, shp, app, wr>>

RegUpdateFieldDatatype ==
    \E name \in RegNames, dt \in RegDatatypes :
        /\ pre' = [fields |-> fields, disk |-> disk]
        /\ fields' = update_field_datatype(fields, name, dt).fields
        /\ last' = [op |-> "update_field_datatype", a1 |-> name, a2 |-> dt,
                    raised |-> update_field_datatype(fields, name, dt).raised, ret |-> 0]
        /\ UNCHANGED <<disk, gen, imp, ctx, inst, shp, app, wr>>

RegSave ==
    \E outcome \in SaveOutcomes :
        /\ pre' = [fields |-> fields, disk |-> disk]
        /\ disk' = save(fields, disk, outcome)
        /\ last' = [op |-> "save", a1 |-> <<>>, a2 |-> <<>>,
                    raised |-> outcome # "ok", ret |-> 0]
        /\ UNCHANGED <<fields, gen, imp, ctx, inst, shp, app, wr>>

RegLoad ==
    /\ pre' = [fields |-> fields, disk |-> disk]
    /\ fields' = load(fields, disk)
    /\ last' = [op |-> "load", a1 |-> <<>>, a2 |-> <<>>, raised |-> FALSE, ret |-> 0]
    /\ UNCHANGED <<disk, gen, imp, ctx, inst, shp, app, wr>>

NextRegistry ==
    \/ RegAddField
    \/ RegFindMatchingField
    \/ RegUpdateFieldDatatype
    \/ RegSave
    \/ RegLoad

SpecRegistry == InitRegistry /\ [][NextRegistry]_vars

---------------------------------------------------------------------------
(* C9, C10: lookup and datatype update.                                    *)

EqualsTerm(f, term) ==
    \/ Lower(term) = Lower(f.name)
    \/ \E j \in 1..Len(f.synonyms) : Lower(term) = Lower(f.synonyms[j])

ContainsTerm(f, term) ==
    \/ Contains(Lower(f.name), Lower(term))
    \/ \E j \in 1..Len(f.synonyms) : Contains(Lower(f.synonyms[j]), Lower(term))
    \/ \E j \in 1..Len(f.examples) : Contains(Lower(f.examples[j]), Lower(term))

FirstOf(I) == IF I = {} THEN 0 ELSE CHOOSE i \in I : \A j \in I : i <= j

\* C9: find_matching_field(term) returns the first field in insertion order whose
\* name or a synonym equals term case-insensitively, if there is one anywhere in the
\* registry; otherwise the first field whose name, a synonym or an example contains
\* term; otherwise None. The registry and its file are left as they were.
C9_FindMatchingField ==
    last.op = "find_matching_field" =>
        LET E == {i \in 1..Len(fields) : EqualsTerm(fields[i].field, last.a1)}
            P == {i \in 1..Len(fields) : ContainsTerm(fields[i].field, last.a1)}
        IN  /\ last.ret = (IF E # {} THEN FirstOf(E) ELSE FirstOf(P))
            /\ fields = pre.fields
            /\ disk = pre.disk

\* an exact match is returned although an earlier field contains the term
C9_Witness ==
    /\ last.op = "find_matching_field"
    /\ last.ret = 2
    /\ ContainsTerm(fields[1].field, last.a1)
    /\ ~EqualsTerm(fields[1].field, last.a1)
    /\ EqualsTerm(fields[2].field, last.a1)

\* C10: update_field_datatype raises for every unknown name and for every datatype
\* that does not start with 'xsd:', and then changes nothing; on success only the
\* datatype of the named field changes, and the registry file is not written.
C10_UpdateFieldDatatype ==
    last.op = "update_field_datatype" =>
        /\ last.raised <=> (~HasKey(pre.fields, last.a1) \/ ~StartsWith(last.a2, S_xsd))
        /\ disk = pre.disk
        /\ last.raised => fields = pre.fields
        /\ ~last.raised =>
            /\ Len(fields) = Len(pre.fields)
            /\ \A i \in 1..Len(fields) :
                /\ fields[i].key = pre.fields[i].key
                /\ fields[i].key # last.a1 => fields[i] = pre.fields[i]
                /\ fields[i].key = last.a1 =>
                    /\ fields[i].field.datatype = last.a2
                    /\ fields[i].field =
                         [pre.fields[i].field EXCEPT !.datatype = last.a2]

\* a successful update that changed a datatype beside an untouched second field,
\* with a registry file that differs from memory
C10_Witness ==
    /\ last.op = "update_field_datatype"
    /\ ~last.raised
    /\ Len(fields) = 2
    /\ fields # pre.fields
    /\ disk.exists

\* both error cases occur
C10_WitnessRaised ==
    /\ last.op = "update_field_datatype"
    /\ last.raised
    /\ HasKey(fields, last.a1)
    /\ Len(fields) = 2

---------------------------------------------------------------------------
(* The generation pipeline: ShaclGenerator.generate_shape / improve_shape, *)
(* LLMInterface.generate_shape / improve_shape and _process_llm_response.  *)
(* The completion service is the environment: it answers a request with a  *)
(* text, or the request raises. A text is described by what the code reads *)
(* from it: whether rdflib parses the extracted Turtle, and the pieces the  *)
(* path_pattern of _extract_new_fields tells apart, in text order.         *)

S_income == <<"i", "n", "c", "o", "m", "e">>
S_decimal == <<"d", "e", "c", "i", "m", "a", "l">>
S_yearly == <<"y", "e", "a", "r", "l", "y">>

\* the pieces of a Turtle text: `ex:v` at the head of a statement, `a sh:PropertyShape`,
\* `sh:path ex:v`, `;`, `.`, `sh:datatype xsd:v`, `sh:description "v"`, and any other
\* predicate and object without a ';'
Ex(v) == [k |-> "ex", v |-> v]
TypeTok == [k |-> "type", v |-> <<>>]
PathTok(v) == [k |-> "path", v |-> v]
Semi == [k |-> "semi", v |-> <<>>]
Dot == [k |-> "dot", v |-> <<>>]
Dt(v) == [k |-> "dt", v |-> v]
Desc(v) == [k |-> "desc", v |-> v]
Other == [k |-> "other", v |-> <<>>]

\* a match of path_pattern: groups 1, 2 and 3 (description <<>> when group 3 is None)
Match(name, datatype, description) ==
    [name |-> name, datatype |-> datatype, description |-> description]

\* path_pattern matches at i: ex:(\w+), then `a sh:PropertyShape` or `sh:path ex:..`,
\* then ';', then [^;]* up to a `sh:datatype xsd:(\w+)`
MatchesAt(text, i) ==
    /\ i + 2 <= Len(text)
    /\ text[i].k = "ex"
    /\ text[i + 1].k \in {"type", "path"}
    /\ text[i + 2].k = "semi"
    /\ \E j \in (i + 3)..Len(text) :
          text[j].k = "dt" /\ \A m \in (i + 3)..j : text[m].k # "semi"

\* the sh:datatype the greedy [^;]* stops at: the last one before the next ';'
DatatypeAt(text, i) ==
    CHOOSE j \in (i + 3)..Len(text) :
        /\ text[j].k = "dt"
        /\ \A m \in (i + 3)..j : text[m].k # "semi"
        /\ \A j2 \in (j + 1)..Len(text) :
              ~(text[j2].k = "dt" /\ \A m \in (i + 3)..j2 : text[m].k # "semi")

\* where the match ends: the second [^;]* runs to the next ';' or to the end of the
\* text, and the optional description group then matches nothing
MatchEnd(text, i) ==
    IF \E e \in (DatatypeAt(text, i) + 1)..Len(text) : text[e].k = "semi"
    THEN CHOOSE e \in (DatatypeAt(text, i) + 1)..Len(text) :
            /\ text[e].k = "semi"
            /\ \A m \in (DatatypeAt(text, i) + 1)..(e - 1) : text[m].k # "semi"
    ELSE Len(text) + 1

\* re.finditer(path_pattern, shape_text): the matches from position i on, left to
\* right and without overlap
RECURSIVE finditer(_, _)
finditer(text, i) ==
    IF i > Len(text) THEN <<>>
    ELSE IF MatchesAt(text, i)
         THEN <<Match(text[i].v, text[DatatypeAt(text, i)].v, <<>>)>>
              \o finditer(text, MatchEnd(text, i))
         ELSE finditer(text, i + 1)

\* the Turtle texts of the model
Texts ==
    { <<>>,
      <<Ex(S_age), TypeTok, Semi, Dt(S_integer), Dot>>,
      <<Ex(S_age), TypeTok, Semi, Dt(S_integer), Semi, Desc(S_yearly), Dot,
        Ex(S_income), PathTok(S_income), Semi, Dt(S_decimal), Semi, Other, Dot>>,
      <<Ex(S_income), TypeTok, Semi, Dt(S_decimal), Semi, Other, Dot,
        Ex(S_income), TypeTok, Semi, Dt(S_integer), Semi, Other, Dot>>,
      <<Ex(S_zip), TypeTok, Semi, Other, Dot, Ex(S_income), Dt(S_decimal), Dot>>,
      <<Ex(S_age), TypeTok, Semi, Dt(S_integer), Dot,
        Ex(S_income), TypeTok, Semi, Dt(S_decimal), Dot>>,
      <<Ex(S_zip), TypeTok, Semi, Other, Semi, Dt(S_integer), Dot>> }

\* the texts the completion service may answer with
Responses == {[parses |-> p, text |-> tx, matches |-> finditer(tx, 1)] :
                 p \in BOOLEAN, tx \in Texts}

\* _extract_new_fields(shape_text): the matches whose name the registry lacks
RECURSIVE extract_new_fields(_, _)
extract_new_fields(matches, fs) ==
    IF matches = <<>> THEN <<>>
    ELSE IF ~HasKey(fs, Head(matches).name)
         THEN <<[name |-> Head(matches).name, datatype |-> Head(matches).datatype,
                 description |-> IF Head(matches).description # <<>>
                                 THEN Head(matches).description
                                 ELSE S_field_for \o Head(matches).name]>>
              \o extract_new_fields(Tail(matches), fs)
         ELSE extract_new_fields(Tail(matches), fs)

\* the DataField list _process_llm_response builds from the extracted tuples
new_fields_of(text, fs) ==
    [i \in 1..Len(extract_new_fields(text.matches, fs)) |->
        DataField(extract_new_fields(text.matches, fs)[i].name,
                  S_ex \o extract_new_fields(text.matches, fs)[i].name,
                  S_xsd \o extract_new_fields(text.matches, fs)[i].datatype,
                  extract_new_fields(text.matches, fs)[i].description,
                  <<>>, <<>>, NoConstraints)]

\* a plausible slip: the insertion is left to the caller
add_new_fields_left_to_caller(fs, dk, nf, i, failAt) ==
    [fields |-> fs, disk |-> dk, raised |-> FALSE]

\* the loop `for field in new_fields: self.field_registry.add_field(field)`; the
\* save of the failAt-th field raises (failAt = 0: none does) and ends the loop
RECURSIVE add_new_fields(_, _, _, _, _)
add_new_fields(fs, dk, nf, i, failAt) ==
    IF i > Len(nf) THEN [fields |-> fs, disk |-> dk, raised |-> FALSE]
    ELSE IF i = failAt THEN add_field(fs, dk, nf[i], "fail")
    ELSE add_new_fields(add_field(fs, dk, nf[i], "ok").fields,
                        add_field(fs, dk, nf[i], "ok").disk, nf, i + 1, failAt)

\* plausible slips: a second repair round, and a partial result in place of the raise
on_second_failure_retry(gn) ==
    IF gn.llmCalls < 3
    THEN [gn EXCEPT !.pc = "await_repair", !.llmCalls = @ + 1, !.repairCalls = @ + 1]
    ELSE [gn EXCEPT !.pc = "raised", !.parse2 = "fail"]

on_second_failure_partial(gn) ==
    [gn EXCEPT !.pc = "returned", !.parse2 = "fail", !.hasGraph = TRUE]

\* g.parse(data=fixed_content) raising inside the except block: nothing catches it
on_second_failure(gn) == [gn EXCEPT !.pc = "raised", !.parse2 = "fail"]

InitGenerate ==
    /\ fields \in { <<>>,
                    <<[key |-> S_age,
                       field |-> DataField(S_age, S_ex \o S_age, S_xsd_integer,
                                           S_field_for \o S_age, <<>>, <<>>,
                                           NoConstraints)]>> }
    /\ disk = IF fields = <<>> THEN [exists |-> FALSE, data |-> <<>>]
              ELSE [exists |-> TRUE, data |-> DumpFields(fields)]
    /\ pre = [fields |-> fields, disk |-> disk]
    /\ last = NoCall
    /\ gen = GenIdle
    /\ imp = ImpIdle
    /\ ctx = CtxIdle
    /\ inst = InstIdle
    /\ shp = ShpIdle
    /\ app = AppIdle
    /\ wr = WrIdle

max_examples == 3
max_items == 5
TextIds == {<<"t", "1">>, <<"t", "2">>}

\* _get_relevant_examples(text_id): [] without a store, else the first max_examples
get_relevant_examples(cx, text_id) ==
    IF ~cx.has_store THEN <<>>
    ELSE SubSeq(cx.examples, 1, IF Len(cx.examples) < max_examples THEN Len(cx.examples)
                                ELSE max_examples)

\* the loop of _get_relevant_feedback: the entries of another text, as dicts
RECURSIVE feedback_items(_, _)
feedback_items(history, text_id) ==
    IF history = <<>> THEN <<>>
    ELSE IF Head(history).text_id # text_id
         THEN <<[feedback |-> Head(history).feedback,
                 improved_shape |-> Head(history).improved_shape]>>
              \o feedback_items(Tail(history), text_id)
         ELSE feedback_items(Tail(history), text_id)

\* a plausible slip: the history is cut to max_items before the entries are filtered
get_relevant_feedback_cut_first(cx, text_id) ==
    feedback_items(SubSeq(cx.feedback_history, 1,
                          IF Len(cx.feedback_history) < max_items
                          THEN Len(cx.feedback_history) ELSE max_items), text_id)

\* _get_relevant_feedback(text_id): feedback_items[:max_items]
get_relevant_feedback(cx, text_id) ==
    SubSeq(feedback_items(cx.feedback_history, text_id), 1,
           IF Len(feedback_items(cx.feedback_history, text_id)) < max_items
           THEN Len(feedback_items(cx.feedback_history, text_id)) ELSE max_items)

\* generate_shape / improve_shape up to the first completion request; improve_shape
\* passes no examples
GenCall ==
    \E kind \in {"generate_shape", "improve_shape"}, text_id \in TextIds :
        /\ gen.pc \in {"idle", "returned", "raised"}
        /\ pre' = [fields |-> fields, disk |-> disk]
        /\ gen' = [GenIdle EXCEPT
                     !.pc = "await_completion", !.kind = kind, !.llmCalls = 1,
                     !.text_id = text_id,
                     !.examples = IF kind = "generate_shape"
                                  THEN get_relevant_examples(ctx, text_id) ELSE <<>>,
                     !.feedback = get_relevant_feedback(ctx, text_id)]
        /\ UNCHANGED <<fields, disk, last, imp, ctx, inst, shp, app, wr>>

\* client.chat.completions.create raises: the exception reaches the caller
GenServiceError ==
    /\ gen.pc \in {"await_completion", "await_repair"}
    /\ gen' = [gen EXCEPT !.pc = "raised"]
    /\ UNCHANGED <<fields, disk, pre, last, imp, ctx, inst, shp, app, wr>>

\* `sh:description "v"` after the first substitution of _validate_and_fix_turtle
Desc3(v) == [k |-> "desc3", v |-> v]

\* _validate_and_fix_turtle(turtle_content): a one-line string literal after
\* sh:description, rdfs:comment or rdfs:label is rewritten with triple quotes; the
\* other substitutions leave the pieces of the model's texts as they are
validate_and_fix_turtle(turtle_content) ==
    [i \in 1..Len(turtle_content) |->
        IF turtle_content[i].k = "desc" THEN Desc3(turtle_content[i].v)
        ELSE turtle_content[i]]

\* g.parse(data=turtle_content, format='turtle'): the text the parser is given is
\* the extracted text
handed_to_parser(turtle_content) == turtle_content

\* a parsed text: harvest the new fields, add them to the registry, return
GenFinish(text, attempt, failAt) ==
    /\ failAt \in 0..Len(new_fields_of(text, fields))
    /\ fields' = add_new_fields(fields, disk, new_fields_of(text, fields), 1, failAt).fields
    /\ disk' = add_new_fields(fields, disk, new_fields_of(text, fields), 1, failAt).disk
    /\ gen' = [gen EXCEPT
                 !.pc = IF failAt = 0 THEN "returned" ELSE "raised",
                 !.parse1 = IF attempt = 1 THEN "ok" ELSE @,
                 !.parse2 = IF attempt = 2 THEN "ok" ELSE @,
                 !.hasGraph = (failAt = 0),
                 !.text = text.text,
                 !.extracted = IF attempt = 1 THEN text.text ELSE @,
                 !.handed = IF attempt = 1 THEN handed_to_parser(text.text) ELSE @,
                 !.keysAtScan = Keys(fields),
                 !.new_fields = IF failAt = 0 THEN new_fields_of(text, fields) ELSE <<>>]

\* the first answer arrives: _process_llm_response's try block
GenFirstResponse ==
    \E text \in Responses, failAt \in 0..2 :
        /\ gen.pc = "await_completion"
        /\ IF text.parses
           THEN GenFinish(text, 1, failAt)
           ELSE /\ failAt = 0
                /\ gen' = [gen EXCEPT !.pc = "await_repair", !.parse1 = "fail",
                                      !.llmCalls = @ + 1, !.repairCalls = @ + 1,
                                      !.extracted = text.text,
                                      !.handed = handed_to_parser(text.text)]
                /\ UNCHANGED <<fields, disk, ctx, inst, shp, app, wr>>
        /\ UNCHANGED <<pre, last, imp, ctx, inst, shp, app, wr>>

\* the repair answer arrives: the rest of the except block
GenRepairResponse ==
    \E text \in Responses, failAt \in 0..2 :
        /\ gen.pc = "await_repair"
        /\ IF text.parses
           THEN GenFinish(text, 2, failAt)
           ELSE /\ failAt = 0
                /\ gen' = on_second_failure(gen)
                /\ UNCHANGED <<fields, disk, ctx, inst, shp, app, wr>>
        /\ UNCHANGED <<pre, last, imp, ctx, inst, shp, app, wr>>

NextGenerate ==
    \/ GenCall
    \/ GenServiceError
    \/ GenFirstResponse
    \/ GenRepairResponse

SpecGenerate == InitGenerate /\ [][NextGenerate]_vars

GenEnded == gen.pc \in {"returned", "raised"}

\* C1: a failed first parse is followed by exactly one repair request; a failed
\* repair parse makes the call raise; no call makes more than two completion
\* requests (one generation, one repair).
C1_OneRepair ==
    /\ gen.llmCalls <= 2
    /\ gen.repairCalls = (IF gen.parse1 = "fail" THEN 1 ELSE 0)
    /\ gen.llmCalls = (IF gen.pc = "idle" THEN 0 ELSE 1) + gen.repairCalls
    /\ gen.parse2 = "fail" => gen.pc = "raised"
    /\ gen.parse2 # "none" => gen.parse1 = "fail"

\* both parses failed and the call has raised after two requests
C1_Witness ==
    /\ gen.pc = "raised"
    /\ gen.parse1 = "fail"
    /\ gen.parse2 = "fail"
    /\ gen.llmCalls = 2

\* C2: when both parses fail the call raises and returns no graph, and the
\* registry (in memory and on file) is what it was when the call was made.
C2_FailedCallLeavesRegistry ==
    (gen.parse1 = "fail" /\ gen.parse2 = "fail") =>
        /\ gen.pc = "raised"
        /\ ~gen.hasGraph
        /\ gen.new_fields = <<>>
        /\ fields = pre.fields
        /\ disk = pre.disk

\* a doubly failed call on a registry that an earlier call has already extended
C2_Witness ==
    /\ gen.parse1 = "fail"
    /\ gen.parse2 = "fail"
    /\ gen.pc = "raised"
    /\ Len(fields) = 2
    /\ disk.exists

---------------------------------------------------------------------------
(* RDF terms and graphs as import_from_shacl reads them through rdflib.    *)
(* A term is [kind, s, lang, dt]: s is str(term); a literal has a language *)
(* tag and a datatype. A graph is the sequence of its triples in the       *)
(* store's iteration order, which is the order the parser added them in.   *)

Uri(s) == [kind |-> "uri", s |-> s, lang |-> "", dt |-> ""]
BNode(s) == [kind |-> "bnode", s |-> s, lang |-> "", dt |-> ""]
Lit(s, lang) == [kind |-> "lit", s |-> s, lang |-> lang, dt |-> ""]
IntLit(s) == [kind |-> "lit", s |-> s, lang |-> "", dt |-> "integer"]
NoneT == [kind |-> "none", s |-> <<>>, lang |-> "", dt |-> ""]

\* bool(term): a Literal is as true as its Python value, any other term as its string
Truthy(t) ==
    CASE t.kind = "none" -> FALSE
      [] t.kind = "lit" /\ t.dt = "integer" -> \E i \in 1..Len(t.s) : t.s[i] \notin {"0", "+", "-"}
      [] OTHER -> t.s # <<>>

isinstance_Literal(t) == t.kind = "lit"
isinstance_BNode(t) == t.kind = "bnode"

Triple(s, p, o) == [s |-> s, p |-> p, o |-> o]

RDF_nil == Uri(<<"r", "d", "f", "#", "n", "i", "l">>)
FF_AnswerOption == Uri(<<"f", "f", "#", "A", "n", "s", "w", "e", "r", "O", "p", "t", "i", "o", "n">>)
FF_DataField == Uri(<<"f", "f", "#", "D", "a", "t", "a", "F", "i", "e", "l", "d">>)
SH_PropertyShape == Uri(<<"s", "h", "#", "P", "r", "o", "p", "e", "r", "t", "y", "S", "h", "a", "p", "e">>)
SH_NodeShape == Uri(<<"s", "h", "#", "N", "o", "d", "e", "S", "h", "a", "p", "e">>)

\* g.objects(s, p), g.subjects(p, o), g.value(s, p) and (s, p, o) in g
Objects(g, s, p) ==
    [i \in 1..Len(SelectSeq(g, LAMBDA t : t.s = s /\ t.p = p)) |->
        SelectSeq(g, LAMBDA t : t.s = s /\ t.p = p)[i].o]

Subjects(g, p, o) ==
    [i \in 1..Len(SelectSeq(g, LAMBDA t : t.p = p /\ t.o = o)) |->
        SelectSeq(g, LAMBDA t : t.p = p /\ t.o = o)[i].s]

Value(g, s, p) == IF Objects(g, s, p) = <<>> THEN NoneT ELSE Objects(g, s, p)[1]

InGraph(g, s, p, o) == \E i \in 1..Len(g) : g[i] = Triple(s, p, o)

\* g.value(s, p, None, any=False) raises UniquenessError on a second value
ValueIsAmbiguous(g, s, p) == Len(Objects(g, s, p)) > 1

Digits == <<"0", "1", "2", "3", "4", "5", "6", "7", "8", "9">>

\* the parser names the blank nodes of a document afresh on every parse
FreshBNode(t, n) == IF t.kind = "bnode" THEN BNode(<<"N", Digits[n + 1]>> \o t.s) ELSE t

\* a plausible slip: the parse error is swallowed and the triples read so far are used
parse_lenient(doc, n) ==
    [raised |-> FALSE,
     g |-> [i \in 1..Len(doc.triples) |->
              Triple(FreshBNode(doc.triples[i].s, n), doc.triples[i].p,
                     FreshBNode(doc.triples[i].o, n))]]

\* g.parse(data=shacl_content, format='turtle'), the n-th parse of the process;
\* a failure is re-raised as ValueError and the graph is dropped
parse(doc, n) ==
    IF doc.valid
    THEN [raised |-> FALSE,
          g |-> [i \in 1..Len(doc.triples) |->
                   Triple(FreshBNode(doc.triples[i].s, n), doc.triples[i].p,
                          FreshBNode(doc.triples[i].o, n))]]
    ELSE [raised |-> TRUE, g |-> <<>>]

\* the label loop of the answer options: label is None (<<>> with some = FALSE) or a str
RECURSIVE ao_label(_, _)
ao_label(ls, label) ==
    IF ls = <<>> THEN label
    ELSE IF isinstance_Literal(Head(ls))
         THEN IF Head(ls).lang = "en" THEN [some |-> TRUE, s |-> Head(ls).s]
              ELSE IF ~(label.some /\ label.s # <<>>)
                   THEN ao_label(Tail(ls), [some |-> TRUE, s |-> Head(ls).s])
                   ELSE ao_label(Tail(ls), label)
         ELSE ao_label(Tail(ls), label)

\* one entry of answer_options: str(ao_uri) -> {id, label or id}
answer_option(g, ao_uri) ==
    [key |-> ao_uri.s,
     id |-> AfterLastHash(ao_uri.s),
     label |-> IF ao_label(Objects(g, ao_uri, "rdfs:label"), [some |-> FALSE, s |-> <<>>]).s # <<>>
               THEN ao_label(Objects(g, ao_uri, "rdfs:label"), [some |-> FALSE, s |-> <<>>]).s
               ELSE AfterLastHash(ao_uri.s)]

\* the answer_options dict, one assignment per subject typed ff:AnswerOption
answer_options_of(g) ==
    [i \in 1..Len(Subjects(g, "rdf:type", FF_AnswerOption)) |->
        answer_option(g, Subjects(g, "rdf:type", FF_AnswerOption)[i])]

\* value_uri in answer_options, and answer_options[value_uri] (the last assignment)
InAnswerOptions(ao, k) == \E i \in 1..Len(ao) : ao[i].key = k
AnswerOptionAt(ao, k) ==
    ao[CHOOSE i \in 1..Len(ao) : ao[i].key = k /\ \A j \in 1..Len(ao) : ao[j].key = k => j <= i]

\* the loops over rdfs:label, rdfs:comment and schema:question of a field
RECURSIVE prefer_english(_, _)
prefer_english(ls, cur) ==
    IF ls = <<>> THEN cur
    ELSE IF isinstance_Literal(Head(ls))
         THEN IF Head(ls).lang = "en" THEN Head(ls)
              ELSE IF ~Truthy(cur) THEN prefer_english(Tail(ls), Head(ls))
                   ELSE prefer_english(Tail(ls), cur)
         ELSE prefer_english(Tail(ls), cur)

field_label(g, field_uri) == prefer_english(Objects(g, field_uri, "rdfs:label"), NoneT)

field_description(g, field_uri) ==
    IF Truthy(prefer_english(Objects(g, field_uri, "rdfs:comment"), NoneT))
    THEN prefer_english(Objects(g, field_uri, "rdfs:comment"), NoneT)
    ELSE prefer_english(Objects(g, field_uri, "schema:question"),
                        prefer_english(Objects(g, field_uri, "rdfs:comment"), NoneT))

\* constraints[k] = v
Put(c, k, v) == [x \in DOMAIN c \cup {k} |-> IF x = k THEN v ELSE c[x]]

\* the node the constraints are read from: the linked node when it is typed, else
\* the first subject of that type anywhere in the graph, else None
resolve_shape(g, node, type) ==
    IF InGraph(g, node, "rdf:type", type) THEN node
    ELSE IF SelectSeq(Subjects(g, "rdf:type", type),
                      LAMBDA ps : \E i \in 1..Len(g) :
                                     g[i].s = ps /\ g[i].p = "rdf:type" /\ g[i].o = type) = <<>>
         THEN NoneT
         ELSE Head(SelectSeq(Subjects(g, "rdf:type", type),
                             LAMBDA ps : \E i \in 1..Len(g) :
                                     g[i].s = ps /\ g[i].p = "rdf:type" /\ g[i].o = type))

\* sh:targetObjectsOf and sh:datatype of the property shape
shape_constraints(g, prop_shape, c) ==
    LET c1 == IF Truthy(Value(g, prop_shape, "sh:targetObjectsOf"))
              THEN Put(c, "targetObjectsOf", Value(g, prop_shape, "sh:targetObjectsOf").s)
              ELSE c
    IN  IF Truthy(Value(g, prop_shape, "sh:datatype"))
        THEN Put(c1, "datatype",
                 IF \E i \in 1..Len(Value(g, prop_shape, "sh:datatype").s) :
                        Value(g, prop_shape, "sh:datatype").s[i] = "#"
                 THEN S_xsd \o AfterLastHash(Value(g, prop_shape, "sh:datatype").s)
                 ELSE Value(g, prop_shape, "sh:datatype").s)
        ELSE c1

\* the {id, label} record of one allowed value
value_option(ao, value) ==
    IF InAnswerOptions(ao, value.s)
    THEN [id |-> AnswerOptionAt(ao, value.s).id, label |-> AnswerOptionAt(ao, value.s).label]
    ELSE [id |-> AfterLastHash(value.s), label |-> AfterLastHash(value.s)]

value_options(ao, allowed_values) ==
    [i \in 1..Len(allowed_values) |-> value_option(ao, allowed_values[i])]

\* sh:minCount / sh:maxCount of the nested property constraints of a node shape
RECURSIVE property_constraints(_, _, _)
property_constraints(g, props, c) ==
    IF props = <<>> THEN c
    ELSE LET c1 == IF Truthy(Value(g, Head(props), "sh:minCount"))
                   THEN Put(c, "minCount", Value(g, Head(props), "sh:minCount").s)
                   ELSE c
             c2 == IF Truthy(Value(g, Head(props), "sh:maxCount"))
                   THEN Put(c1, "maxCount", Value(g, Head(props), "sh:maxCount").s)
                   ELSE c1
         IN  property_constraints(g, Tail(props), c2)

\* the loop over ff:usageConstraints
RECURSIVE usage_constraints(_, _, _)
usage_constraints(g, ucs, c) ==
    IF ucs = <<>> THEN c
    ELSE LET node_shape == resolve_shape(g, Head(ucs), SH_NodeShape)
         IN  IF Truthy(node_shape)
             THEN LET c1 == IF Truthy(Value(g, node_shape, "sh:targetSubjectsOf"))
                            THEN Put(c, "targetSubjectsOf",
                                     Value(g, node_shape, "sh:targetSubjectsOf").s)
                            ELSE c
                  IN  usage_constraints(g, Tail(ucs),
                          property_constraints(g, Objects(g, node_shape, "sh:property"), c1))
             ELSE usage_constraints(g, Tail(ucs), c)

\* a plausible slip: the examples are the labels alone
imported_field_labels_only(field_name, label, description, constraints) ==
    DataField(field_name,
              S_ff \o field_name,
              IF "datatype" \in DOMAIN constraints THEN constraints["datatype"] ELSE S_xsd_string,
              IF Truthy(description) THEN description.s
              ELSE IF Truthy(label) THEN label.s ELSE S_field_for \o field_name,
              IF "allowed_values" \in DOMAIN constraints
              THEN [i \in 1..Len(constraints["allowed_values"]) |->
                      constraints["allowed_values"][i].label]
              ELSE <<>>,
              <<>>,
              constraints)

\* the DataField built for a field once its constraints are known
imported_field(field_name, label, description, constraints) ==
    DataField(field_name,
              S_ff \o field_name,
              IF "datatype" \in DOMAIN constraints THEN constraints["datatype"] ELSE S_xsd_string,
              IF Truthy(description) THEN description.s
              ELSE IF Truthy(label) THEN label.s ELSE S_field_for \o field_name,
              IF "allowed_values" \in DOMAIN constraints
              THEN [i \in 1..Len(constraints["allowed_values"]) |->
                      constraints["allowed_values"][i].label \o <<" ", "(">>
                      \o constraints["allowed_values"][i].id \o <<")">>]
              ELSE <<>>,
              <<>>,
              constraints)

---------------------------------------------------------------------------
(* The documents given to import_from_shacl.                               *)

NS == <<"f", "f", "#">>
NS2 == <<"e", "x", "#">>
XSD_NS == <<"x", "s", "#">>
S_a == <<"a">>
S_b == <<"b">>
F(n) == Uri(NS \o n)

AO1 == Uri(NS \o <<"o", "1">>)
PlainValue == Uri(NS \o <<"u">>)
Cell(i) == BNode(<<"c", Digits[i + 1]>>)

MemberKinds == {"ao", "uri", "zero", "bn", "nofirst"}

\* the rdf:first object of a list cell of each kind
Member(kind) ==
    CASE kind = "ao" -> AO1
      [] kind = "uri" -> PlainValue
      [] kind = "zero" -> IntLit(<<"0">>)
      [] kind = "bn" -> BNode(<<"m">>)
      [] OTHER -> NoneT

\* the cells of an sh:in list: rdf:first where the cell has one, and rdf:rest to the
\* next cell, then to rdf:nil ("nil"), nowhere ("missing") or back to the head ("cycle")
RECURSIVE ListTriples(_, _, _)
ListTriples(members, ending, i) ==
    IF i > Len(members) THEN <<>>
    ELSE (IF members[i] # "nofirst"
          THEN <<Triple(Cell(i), "rdf:first", Member(members[i]))>> ELSE <<>>)
         \o (IF i < Len(members) THEN <<Triple(Cell(i), "rdf:rest", Cell(i + 1))>>
             ELSE IF ending = "nil" THEN <<Triple(Cell(i), "rdf:rest", RDF_nil)>>
             ELSE IF ending = "cycle" THEN <<Triple(Cell(i), "rdf:rest", Cell(1))>>
             ELSE <<>>)
         \o ListTriples(members, ending, i + 1)

ListHead(members, ending) ==
    IF members = <<>> /\ ending = "nil" THEN RDF_nil ELSE Cell(1)

AnswerOptionTriples(labels) ==
    <<Triple(AO1, "rdf:type", FF_AnswerOption)>>
    \o [i \in 1..Len(labels) |-> Triple(AO1, "rdfs:label", labels[i])]

L_X == Lit(<<"X">>, "de")
L_Y == Lit(<<"Y">>, "")
L_E == Lit(<<"E">>, "en")

\* one DataField ff#a whose typed property shape has the given sh:in list
ListDoc(members, ending) ==
    [valid |-> TRUE, kind |-> "list", members |-> members, ending |-> ending,
     triples |->
        <<Triple(F(S_a), "rdf:type", FF_DataField),
          Triple(F(S_a), "ff:objectConstraints", BNode(<<"p">>)),
          Triple(BNode(<<"p">>), "rdf:type", SH_PropertyShape),
          Triple(BNode(<<"p">>), "sh:in", ListHead(members, ending))>>
        \o ListTriples(members, ending, 1)
        \o AnswerOptionTriples(<<L_X>>)]

MemberSeqs == UNION {[1..n -> MemberKinds] : n \in 0..MaxListLen}

ListDocs ==
    {ListDoc(ms, e) : ms \in MemberSeqs, e \in {"nil", "missing"}}
    \cup {ListDoc(ms, "cycle") : ms \in MemberSeqs \ {<<>>}}

LabelSeqs ==
    { <<>>, <<L_X>>, <<L_X, L_E>>, <<L_E, L_X>>, <<L_X, L_Y>>,
      <<Lit(<<>>, "de"), L_X>>, <<Lit(<<>>, "en"), L_X>>, <<PlainValue, L_Y>>,
      <<IntLit(<<"0">>), L_Y>> }

\* ff#a with sh:in (ff#o1 ff#u); the labels are those of ff#o1 and of the field
LabelDoc(labels) ==
    [valid |-> TRUE, kind |-> "labels", members |-> <<"ao", "uri">>, ending |-> "nil",
     triples |->
        <<Triple(F(S_a), "rdf:type", FF_DataField)>>
        \o [i \in 1..Len(labels) |-> Triple(F(S_a), "rdfs:label", labels[i])]
        \o <<Triple(F(S_a), "ff:objectConstraints", BNode(<<"p">>)),
             Triple(BNode(<<"p">>), "rdf:type", SH_PropertyShape),
             Triple(BNode(<<"p">>), "sh:in", Cell(1))>>
        \o ListTriples(<<"ao", "uri">>, "nil", 1)
        \o AnswerOptionTriples(labels)]

LabelDocs == {LabelDoc(ls) : ls \in LabelSeqs}

\* two DataFields, each with a property shape and a node shape; the shapes of a
\* field are typed or left untyped, ff#a has nCat schema:category values, and the
\* second field is ff#b or ex#a
TwoFieldDoc(typedA, typedB, nCat, second) ==
    [valid |-> TRUE, kind |-> "two", members |-> <<>>, ending |-> "none",
     triples |->
        <<Triple(F(S_a), "rdf:type", FF_DataField),
          Triple(F(S_a), "rdfs:comment", Lit(<<"C">>, "de")),
          Triple(F(S_a), "ff:objectConstraints", BNode(<<"p", "a">>)),
          Triple(F(S_a), "ff:usageConstraints", BNode(<<"n", "a">>))>>
        \o [i \in 1..nCat |-> Triple(F(S_a), "schema:category", F(<<"k", Digits[i + 1]>>))]
        \o (IF typedA THEN <<Triple(BNode(<<"p", "a">>), "rdf:type", SH_PropertyShape),
                             Triple(BNode(<<"n", "a">>), "rdf:type", SH_NodeShape)>>
            ELSE <<>>)
        \o <<Triple(BNode(<<"p", "a">>), "sh:datatype", Uri(XSD_NS \o S_integer)),
             Triple(BNode(<<"p", "a">>), "sh:targetObjectsOf", F(S_a)),
             Triple(BNode(<<"n", "a">>), "sh:property", BNode(<<"q", "a">>)),
             Triple(BNode(<<"q", "a">>), "sh:path", F(S_a)),
             Triple(BNode(<<"q", "a">>), "sh:minCount", IntLit(<<"1">>)),
             Triple(BNode(<<"q", "a">>), "sh:maxCount", IntLit(<<"1">>)),
             Triple(second, "rdf:type", FF_DataField),
             Triple(second, "schema:question", Lit(<<"Q">>, "en")),
             Triple(second, "ff:objectConstraints", BNode(<<"p", "b">>)),
             Triple(second, "ff:usageConstraints", BNode(<<"n", "b">>))>>
        \o (IF typedB THEN <<Triple(BNode(<<"p", "b">>), "rdf:type", SH_PropertyShape),
                             Triple(BNode(<<"n", "b">>), "rdf:type", SH_NodeShape)>>
            ELSE <<>>)
        \o <<Triple(BNode(<<"p", "b">>), "sh:datatype", Uri(<<"h", ":", "t">>)),
             Triple(BNode(<<"p", "b">>), "sh:in", PlainValue),
             Triple(BNode(<<"n", "b">>), "sh:targetSubjectsOf", second),
             Triple(BNode(<<"n", "b">>), "sh:property", BNode(<<"q", "b">>)),
             Triple(BNode(<<"q", "b">>), "sh:path", F(S_a)),
             Triple(BNode(<<"q", "b">>), "sh:minCount", IntLit(<<"0">>)),
             Triple(BNode(<<"q", "b">>), "sh:maxCount", IntLit(<<"2">>))>>]

TwoFieldDocs ==
    {TwoFieldDoc(ta, tb, n, s) :
        ta \in BOOLEAN, tb \in BOOLEAN, n \in 0..2, s \in {F(S_b), Uri(NS2 \o S_a)}}

S_einkommen == <<"e", "i", "n", "k", "o", "m", "m", "e", "n">>
S_ao_selbstaendig == S_einkommen \o <<"-", "a", "o", "-", "s", "e", "l", "b", "s", "t",
                                       "a", "e", "n", "d", "i", "g">>
S_Selbstaendig == <<"S", "e", "l", "b", "s", "t", "ä", "n", "d", "i", "g">>

\* the scenario of the specification: ff#einkommen with one labelled answer option
EinkommenDoc ==
    [valid |-> TRUE, kind |-> "einkommen", members |-> <<>>, ending |-> "nil",
     triples |->
        <<Triple(F(S_einkommen), "rdf:type", FF_DataField),
          Triple(F(S_einkommen), "ff:objectConstraints", BNode(<<"p">>)),
          Triple(BNode(<<"p">>), "rdf:type", SH_PropertyShape),
          Triple(BNode(<<"p">>), "sh:in", Cell(1)),
          Triple(Cell(1), "rdf:first", F(S_ao_selbstaendig)),
          Triple(Cell(1), "rdf:rest", RDF_nil),
          Triple(F(S_ao_selbstaendig), "rdf:type", FF_AnswerOption),
          Triple(F(S_ao_selbstaendig), "rdfs:label", Lit(S_Selbstaendig, "de"))>>]

\* a DataField that is a blank node
BlankFieldDoc ==
    [valid |-> TRUE, kind |-> "blank", members |-> <<>>, ending |-> "none",
     triples |-> <<Triple(BNode(<<"f">>), "rdf:type", FF_DataField),
                   Triple(BNode(<<"f">>), "rdfs:label", L_X)>>]

\* texts that are not Turtle: the parser raises, having read some triples or none
InvalidDocs ==
    { [valid |-> FALSE, kind |-> "invalid", members |-> <<>>, ending |-> "none",
       triples |-> <<>>],
      [valid |-> FALSE, kind |-> "invalid", members |-> <<>>, ending |-> "none",
       triples |-> <<Triple(F(S_a), "rdf:type", FF_DataField),
                     Triple(F(S_a), "rdfs:label", L_X)>>] }

Docs == ListDocs \cup LabelDocs \cup TwoFieldDocs \cup InvalidDocs
        \cup {EinkommenDoc, BlankFieldDoc}

---------------------------------------------------------------------------
(* import_from_shacl, step by step: the call up to the field loop, the     *)
(* head of the field loop, the loop over ff:objectConstraints, the loop    *)
(* over the sh:in values, one iteration of the while loop of               *)
(* traverse_rdf_list, and the rest of a field (usage constraints,          *)
(* DataField, add_field).                                                  *)

\* a registry that already holds a field named a, as a caller defined it
OldFieldA ==
    DataField(S_a, S_ex \o S_a, S_xsd_integer, S_field_for \o S_a, <<>>, <<S_old>>,
              NoConstraints)

InitImport ==
    /\ fields \in {<<>>, <<[key |-> S_a, field |-> OldFieldA]>>}
    /\ disk = IF fields = <<>> THEN [exists |-> FALSE, data |-> <<>>]
              ELSE [exists |-> TRUE, data |-> DumpFields(fields)]
    /\ pre = [fields |-> fields, disk |-> disk]
    /\ last = NoCall
    /\ gen = GenIdle
    /\ \E d \in Docs : imp = [ImpIdle EXCEPT !.doc = d]
    /\ ctx = CtxIdle
    /\ inst = InstIdle
    /\ shp = ShpIdle
    /\ app = AppIdle
    /\ wr = WrIdle

ImpRunning == imp.pc \in {"field", "oc", "in", "walk"}

field_name_of(field_uri) == AfterLastHash(field_uri.s)

\* import_from_shacl(shacl_content) up to `for field_uri in g.subjects(...)`
ImpCall ==
    /\ imp.pc \in {"idle", "returned", "raised"}
    /\ imp.calls < MaxCalls
    /\ pre' = [fields |-> fields, disk |-> disk]
    /\ imp' = IF parse(imp.doc, imp.calls + 1).raised
              THEN [imp EXCEPT !.pc = "raised", !.calls = @ + 1, !.g = <<>>,
                               !.processed = 0, !.imported = {}, !.failed = {},
                               !.result = {}]
              ELSE [imp EXCEPT
                      !.pc = "field", !.calls = @ + 1,
                      !.g = parse(imp.doc, imp.calls + 1).g,
                      !.answer_options = answer_options_of(parse(imp.doc, imp.calls + 1).g),
                      !.todo = Subjects(parse(imp.doc, imp.calls + 1).g, "rdf:type",
                                        FF_DataField),
                      !.processed = 0, !.imported = {}, !.failed = {}, !.result = {}]
    /\ UNCHANGED <<fields, disk, last, gen, ctx, inst, shp, app, wr>>

\* the next field_uri: name, label, description, category, the object constraints
ImpFieldBegin ==
    /\ imp.pc = "field"
    /\ imp.todo # <<>>
    /\ imp' = IF ValueIsAmbiguous(imp.g, Head(imp.todo), "schema:category")
              THEN [imp EXCEPT !.todo = Tail(@), !.processed = @ + 1,
                               !.failed = @ \cup {field_name_of(Head(imp.todo))}]
              ELSE [imp EXCEPT !.pc = "oc", !.processed = @ + 1,
                               !.constraints = NoConstraints,
                               !.collected = <<>>,
                               !.oc = Objects(imp.g, Head(imp.todo), "ff:objectConstraints")]
    /\ UNCHANGED <<fields, disk, pre, last, gen, ctx, inst, shp, app, wr>>

\* one obj_constraints: find the property shape, read its target and datatype
ImpObjConstraint ==
    /\ imp.pc = "oc"
    /\ imp.oc # <<>>
    /\ imp' = IF Truthy(resolve_shape(imp.g, Head(imp.oc), SH_PropertyShape))
              THEN [imp EXCEPT
                      !.pc = "in", !.oc = Tail(@),
                      !.constraints =
                          shape_constraints(imp.g,
                              resolve_shape(imp.g, Head(imp.oc), SH_PropertyShape), @),
                      !.in_values =
                          Objects(imp.g, resolve_shape(imp.g, Head(imp.oc), SH_PropertyShape),
                                  "sh:in"),
                      !.allowed_values = <<>>]
              ELSE [imp EXCEPT !.oc = Tail(@)]
    /\ UNCHANGED <<fields, disk, pre, last, gen, ctx, inst, shp, app, wr>>

\* one value of sh:in: a blank node is walked as an RDF list, anything else is taken
ImpInValue ==
    /\ imp.pc = "in"
    /\ imp.in_values # <<>>
    /\ imp' = IF isinstance_BNode(Head(imp.in_values))
              THEN [imp EXCEPT !.pc = "walk", !.in_values = Tail(@),
                               !.list_node = Head(imp.in_values), !.items = <<>>]
              ELSE [imp EXCEPT !.in_values = Tail(@),
                               !.allowed_values = Append(@, Head(imp.in_values))]
    /\ UNCHANGED <<fields, disk, pre, last, gen, ctx, inst, shp, app, wr>>

\* a plausible slip: a walk that stops at the first cell
walk_step_first_only(g, list_node, items) ==
    [list_node |-> NoneT,
     items |-> IF Truthy(Value(g, list_node, "rdf:first"))
               THEN Append(items, Value(g, list_node, "rdf:first")) ELSE items,
     done |-> TRUE]

\* one iteration of `while list_node:` in traverse_rdf_list; the model records no
\* more than MaxItems items
walk_step(g, list_node, items) ==
    [list_node |-> Value(g, list_node, "rdf:rest"),
     items |-> IF Truthy(Value(g, list_node, "rdf:first")) /\ Len(items) < MaxItems
               THEN Append(items, Value(g, list_node, "rdf:first")) ELSE items,
     done |-> \/ Value(g, list_node, "rdf:rest") = RDF_nil
              \/ ~Truthy(Value(g, list_node, "rdf:rest"))]

ImpWalkStep ==
    /\ imp.pc = "walk"
    /\ imp' = IF walk_step(imp.g, imp.list_node, imp.items).done
              THEN [imp EXCEPT
                      !.pc = "in", !.list_node = NoneT, !.items = <<>>, !.tick = 0,
                      !.allowed_values =
                          @ \o walk_step(imp.g, imp.list_node, imp.items).items]
              ELSE [imp EXCEPT
                      !.list_node = walk_step(imp.g, imp.list_node, imp.items).list_node,
                      !.items = walk_step(imp.g, imp.list_node, imp.items).items,
                      !.tick = 1 - @]
    /\ UNCHANGED <<fields, disk, pre, last, gen, ctx, inst, shp, app, wr>>

\* the sh:in values are exhausted: constraints['allowed_values'] when there are any
ImpInDone ==
    /\ imp.pc = "in"
    /\ imp.in_values = <<>>
    /\ imp' = [imp EXCEPT
                 !.pc = "oc",
                 !.collected = imp.allowed_values,
                 !.allowed_values = <<>>,
                 !.constraints =
                     IF imp.allowed_values # <<>>
                     THEN Put(@, "allowed_values",
                              value_options(imp.answer_options, imp.allowed_values))
                     ELSE @]
    /\ UNCHANGED <<fields, disk, pre, last, gen, ctx, inst, shp, app, wr>>

\* the field built from a field_uri and the constraints read so far
field_of(g, field_uri, constraints) ==
    imported_field(field_name_of(field_uri), field_label(g, field_uri),
                   field_description(g, field_uri),
                   usage_constraints(g, Objects(g, field_uri, "ff:usageConstraints"),
                                     constraints))

\* the usage constraints, the DataField, add_field and imported_fields.add; an
\* exception from save() is caught by the except of the field loop
ImpFieldFinish ==
    \E outcome \in SaveOutcomes :
        /\ imp.pc = "oc"
        /\ imp.oc = <<>>
        /\ \E field \in {field_of(imp.g, Head(imp.todo), imp.constraints)} :
              \E r \in {add_field(fields, disk, field, outcome)} :
                  fields' = r.fields /\ disk' = r.disk
        /\ imp' = IF outcome = "ok"
                  THEN [imp EXCEPT !.pc = "field", !.todo = Tail(@),
                                   !.constraints = NoConstraints,
                                   !.imported = @ \cup {field_name_of(Head(imp.todo))}]
                  ELSE [imp EXCEPT !.pc = "field", !.todo = Tail(@),
                                   !.constraints = NoConstraints,
                                   !.ioFailed = TRUE,
                                   !.failed = @ \cup {field_name_of(Head(imp.todo))}]
        /\ UNCHANGED <<pre, last, gen, ctx, inst, shp, app, wr>>

\* return list(imported_fields)
ImpReturn ==
    /\ imp.pc = "field"
    /\ imp.todo = <<>>
    /\ imp' = [imp EXCEPT !.pc = "returned", !.result = imp.imported,
                          !.collected = <<>>,
                          !.after1 = IF imp.calls = 1 THEN fields ELSE @,
                          !.ret1 = IF imp.calls = 1 THEN imp.imported ELSE @]
    /\ UNCHANGED <<fields, disk, pre, last, gen, ctx, inst, shp, app, wr>>

NextImport ==
    \/ ImpCall
    \/ ImpFieldBegin
    \/ ImpObjConstraint
    \/ ImpInValue
    \/ ImpWalkStep
    \/ ImpInDone
    \/ ImpFieldFinish
    \/ ImpReturn

SpecImport == InitImport /\ [][NextImport]_vars

\* the interpreter keeps taking steps
FairSpecImport == SpecImport /\ WF_vars(NextImport)

---------------------------------------------------------------------------
(* C3 - C8: the importer.                                                  *)

\* constraints['allowed_values'] of the registry's field `name`, <<>> when there is none
AllowedValuesOf(name) ==
    IF HasKey(fields, name)
       /\ "allowed_values" \in DOMAIN fields[IndexOf(fields, name)].field.constraints
    THEN fields[IndexOf(fields, name)].field.constraints["allowed_values"]
    ELSE <<>>

\* the members of the document's list, as the n-th parse names them
ListMembers(doc, n) ==
    [i \in 1..Len(SelectSeq(doc.members, LAMBDA k : k # "nofirst")) |->
        FreshBNode(Member(SelectSeq(doc.members, LAMBDA k : k # "nofirst")[i]), n)]

\* C3: an sh:in list of N members, N >= 0, whatever its members are, gives exactly
\* N allowed_values entries in list order, also when the chain lacks its rdf:nil;
\* the import raises nothing.
C3_ListRecovered ==
    (imp.pc = "returned" /\ imp.doc.kind = "list" /\ imp.doc.ending \in {"nil", "missing"}) =>
        /\ HasKey(fields, S_a)
        /\ Len(AllowedValuesOf(S_a)) = Len(ListMembers(imp.doc, imp.calls))
        /\ \A i \in 1..Len(AllowedValuesOf(S_a)) :
              i <= Len(ListMembers(imp.doc, imp.calls)) =>
                AllowedValuesOf(S_a)[i].id = AfterLastHash(ListMembers(imp.doc, imp.calls)[i].s)

\* what does hold: a list with at least one cell whose members are all true in
\* Python's sense is recovered member for member
C3_TruthyMembersRecovered ==
    (/\ imp.pc = "returned"
     /\ imp.doc.kind = "list"
     /\ imp.doc.ending \in {"nil", "missing"}
     /\ imp.doc.members # <<>>
     /\ \A i \in 1..Len(imp.doc.members) : imp.doc.members[i] # "zero") =>
        /\ HasKey(fields, S_a)
        /\ Len(AllowedValuesOf(S_a)) = Len(ListMembers(imp.doc, imp.calls))
        /\ \A i \in 1..Len(AllowedValuesOf(S_a)) :
              AllowedValuesOf(S_a)[i].id = AfterLastHash(ListMembers(imp.doc, imp.calls)[i].s)

\* C4: every import_from_shacl call returns (or raises), whatever the lists of the
\* document look like.
C4_ImportReturns == ImpRunning ~> ~ImpRunning

\* what does hold: on a list without a cycle the walk visits each cell once
C4_AcyclicWalkBounded ==
    (imp.pc = "walk" /\ imp.doc.ending # "cycle") =>
        /\ isinstance_BNode(imp.list_node)
        /\ Len(imp.items) <= Len(imp.doc.members)

\* C5: the second of two imports of one document leaves the registry as the first
\* left it and returns the same names (no save having failed).
C5_ImportTwiceIdempotent ==
    (imp.pc = "returned" /\ imp.calls = 2 /\ ~imp.ioFailed) =>
        /\ fields = imp.after1
        /\ imp.result = imp.ret1

\* what does hold: idempotence for documents in which no blank node stands for a
\* field or an allowed value
C5_IdempotentWithoutBlankNodes ==
    (/\ imp.pc = "returned" /\ imp.calls = 2 /\ ~imp.ioFailed
     /\ imp.doc.kind # "blank"
     /\ \A i \in 1..Len(imp.doc.members) : imp.doc.members[i] # "bn") =>
        /\ fields = imp.after1
        /\ imp.result = imp.ret1

\* the DataField subjects of the parsed document
DataFieldSubjects == Subjects(imp.g, "rdf:type", FF_DataField)

\* C6: a failing field does not stop the loop; the returned names are those of the
\* fields processed without error; a field whose processing failed (also inside
\* add_field's save) is not in the registry afterwards, unless it was there before
\* the call or another subject of the same name was imported.
C6_FailedFieldNotRegistered ==
    imp.pc = "returned" =>
        /\ imp.processed = Len(DataFieldSubjects)
        /\ imp.result \cup imp.failed = {field_name_of(DataFieldSubjects[i]) :
                                            i \in 1..Len(DataFieldSubjects)}
        /\ \A n \in imp.failed \ imp.result : n \in Keys(pre.fields) \/ n \notin Keys(fields)

\* what does hold: the same when no save() raised
C6_FailedBeforeAddNotRegistered ==
    (imp.pc = "returned" /\ ~imp.ioFailed) =>
        /\ imp.processed = Len(DataFieldSubjects)
        /\ imp.result \cup imp.failed = {field_name_of(DataFieldSubjects[i]) :
                                            i \in 1..Len(DataFieldSubjects)}
        /\ \A n \in imp.failed \ imp.result : n \in Keys(pre.fields) \/ n \notin Keys(fields)

\* C7: a document that is not Turtle makes import_from_shacl raise before any field
\* is processed, and the registry and its file are as they were.
C7_InvalidTurtleRaises ==
    /\ (imp.calls >= 1 /\ ~imp.doc.valid) =>
          /\ imp.pc = "raised"
          /\ imp.processed = 0
          /\ imp.result = {}
          /\ fields = pre.fields
          /\ disk = pre.disk
    /\ imp.pc = "raised" => ~imp.doc.valid

\* an invalid document, some of whose triples the parser had read, given to a
\* registry that holds a field
C7_Witness ==
    /\ imp.pc = "raised"
    /\ imp.doc.triples # <<>>
    /\ fields # <<>>
    /\ disk.exists

\* the labels of an answer option that are literals, and those in the designated language
LiteralLabels(g, ao_uri) == SelectSeq(Objects(g, ao_uri, "rdfs:label"), isinstance_Literal)
DesignatedLabels(g, ao_uri) == SelectSeq(LiteralLabels(g, ao_uri), LAMBDA l : l.lang = "en")

\* the record the label policy gives a value: the designated-language label if one
\* exists, otherwise the first label, otherwise the short id
ClaimedOption(g, value) ==
    IF InGraph(g, value, "rdf:type", FF_AnswerOption)
    THEN [id |-> AfterLastHash(value.s),
          label |-> IF DesignatedLabels(g, value) # <<>> THEN Head(DesignatedLabels(g, value)).s
                    ELSE IF LiteralLabels(g, value) # <<>> THEN Head(LiteralLabels(g, value)).s
                    ELSE AfterLastHash(value.s)]
    ELSE [id |-> AfterLastHash(value.s), label |-> AfterLastHash(value.s)]

\* the values collected from sh:in have their records, position by position
RecordsFollowPolicy ==
    /\ "allowed_values" \in DOMAIN imp.constraints
    /\ Len(imp.constraints["allowed_values"]) = Len(imp.collected)
    /\ \A i \in 1..Len(imp.collected) :
          imp.constraints["allowed_values"][i] = ClaimedOption(imp.g, imp.collected[i])

\* the scenario: einkommen with the answer option einkommen-ao-selbstaendig
EinkommenImported ==
    /\ imp.result = {S_einkommen}
    /\ AllowedValuesOf(S_einkommen) = <<[id |-> S_ao_selbstaendig, label |-> S_Selbstaendig]>>

\* C8: each value collected from sh:in has, at its position in allowed_values, the
\* record {id, label} of the answer option when it is a typed AnswerOption (label:
\* the designated-language label if one exists, otherwise the first label, otherwise
\* the short id) and {short id, short id} otherwise; the einkommen scenario gives
\* [einkommen] and [{einkommen-ao-selbstaendig, Selbstaendig}].
C8_AllowedValueRecords ==
    /\ (imp.pc = "oc" /\ imp.collected # <<>>) => RecordsFollowPolicy
    /\ (imp.pc = "returned" /\ imp.doc.kind = "einkommen" /\ ~imp.ioFailed) => EinkommenImported

\* what does hold: the same when no label in the document is the empty string
C8_NonEmptyLabelsResolved ==
    /\ (/\ imp.pc = "oc"
        /\ imp.collected # <<>>
        /\ \A i \in 1..Len(imp.g) :
              (imp.g[i].p = "rdfs:label" /\ isinstance_Literal(imp.g[i].o)) => imp.g[i].o.s # <<>>)
          => RecordsFollowPolicy
    /\ (imp.pc = "returned" /\ imp.doc.kind = "einkommen" /\ ~imp.ioFailed) => EinkommenImported

\* an answer option with a designated-language label after another label, resolved
C8_ResolvedDesignated ==
    /\ imp.pc = "oc"
    /\ imp.collected # <<>>
    /\ \E i \in 1..Len(imp.collected) :
          /\ InGraph(imp.g, imp.collected[i], "rdf:type", FF_AnswerOption)
          /\ Len(LiteralLabels(imp.g, imp.collected[i])) = 2
          /\ imp.constraints["allowed_values"][i].label = <<"E">>

---------------------------------------------------------------------------
(* C11: the registry invariant.                                            *)

\* every field is stored under its own name
KeysAreNames == \A i \in 1..Len(fields) : fields[i].key = fields[i].field.name

\* C11: whatever operations have run, every field of the registry is stored under a
\* key equal to its name and has a datatype that starts with 'xsd:', fields imported
\* from a property shape whose sh:datatype IRI has no '#' included.
C11_RegistryInvariant ==
    /\ KeysAreNames
    /\ \A i \in 1..Len(fields) : StartsWith(fields[i].field.datatype, S_xsd)

\* what does hold in all three specifications: keys are names, and a datatype read
\* from an IRI with a '#' is 'xsd:' and the fragment
C11_KeysAreNamesAndFragmentsPrefixed ==
    /\ KeysAreNames
    /\ (imp.pc = "returned" /\ imp.doc.kind # "two") =>
          \A i \in 1..Len(fields) : StartsWith(fields[i].field.datatype, S_xsd)

---------------------------------------------------------------------------
(* C12: save and load.                                                     *)

\* the registry a dumped mapping was written from: the text of every scalar
RegistryOf(data) ==
    [i \in 1..Len(data) |->
        [key |-> data[i].key.text,
         field |-> DataField(data[i].doc.name.text, data[i].doc.path.text,
                             data[i].doc.datatype.text, data[i].doc.description.text,
                             [j \in 1..Len(data[i].doc.examples) |-> data[i].doc.examples[j].text],
                             [j \in 1..Len(data[i].doc.synonyms) |-> data[i].doc.synonyms[j].text],
                             [k \in DOMAIN data[i].doc.constraints |->
                                 IF k = "allowed_values"
                                 THEN [j \in 1..Len(data[i].doc.constraints[k]) |->
                                         [id |-> data[i].doc.constraints[k][j].id.text,
                                          label |-> data[i].doc.constraints[k][j].label.text]]
                                 ELSE data[i].doc.constraints[k].text])]]

\* C12: whatever registry was saved, the empty one included, a load from the file
\* gives the loading registry the saved fields: the same names in the same order,
\* every attribute equal.
C12_SaveLoadRoundTrip ==
    (last.op = "load" /\ disk.exists) => fields = RegistryOf(disk.data)

\* what does hold: the round trip of a registry that is not empty
C12_NonEmptyRoundTrip ==
    /\ disk.exists => DumpFields(RegistryOf(disk.data)) = disk.data
    /\ (last.op = "load" /\ disk.exists /\ disk.data # <<>>) => fields = RegistryOf(disk.data)

\* a loaded registry that differs from memory before the load and holds strings
\* that are written quoted
C12_LoadedQuotedStrings ==
    /\ last.op = "load"
    /\ disk.exists
    /\ fields # pre.fields
    /\ \E i \in 1..Len(disk.data) :
          /\ disk.data[i].doc.synonyms # <<>>
          /\ disk.data[i].doc.synonyms[1].style = "quoted"

---------------------------------------------------------------------------
(* C13: what a request is given from the generator's context. The context  *)
(* grows by add_feedback and add_example; the completion service is not    *)
(* reachable here, so every request ends when the completion call raises.  *)

MaxHistory == 7     \* most entries of feedback_history
MaxExamples == 4    \* most examples of the store

\* the n-th feedback or example text
Numbered(c, n) == <<c, Digits[n + 1]>>

InitContext ==
    /\ fields = <<>>
    /\ disk = [exists |-> FALSE, data |-> <<>>]
    /\ pre = [fields |-> fields, disk |-> disk]
    /\ last = NoCall
    /\ gen = GenIdle
    /\ imp = ImpIdle
    /\ ctx \in {CtxIdle, [CtxIdle EXCEPT !.has_store = TRUE]}
    /\ inst = InstIdle
    /\ shp = ShpIdle
    /\ app = AppIdle
    /\ wr = WrIdle

\* GeneratorContext.add_feedback(text_id, feedback, improved_shape)
CtxAddFeedback ==
    \E text_id \in TextIds :
        /\ gen.pc # "await_completion"
        /\ Len(ctx.feedback_history) < MaxHistory
        /\ ctx' = [ctx EXCEPT !.feedback_history =
                      Append(@, [text_id |-> text_id,
                                 feedback |-> Numbered("f", Len(@) + 1),
                                 improved_shape |-> Numbered("s", Len(@) + 1)])]
        /\ UNCHANGED <<fields, disk, pre, last, gen, imp, inst, shp, app, wr>>

\* ExampleStore.add_example(...): the example read from its files is appended
CtxAddExample ==
    /\ gen.pc # "await_completion"
    /\ ctx.has_store
    /\ Len(ctx.examples) < MaxExamples
    /\ ctx' = [ctx EXCEPT !.examples =
                  Append(@, [text |-> Numbered("x", Len(@) + 1),
                             shape |-> Numbered("g", Len(@) + 1),
                             annotations |-> <<>>])]
    /\ UNCHANGED <<fields, disk, pre, last, gen, imp, inst, shp, app, wr>>

NextContext ==
    \/ CtxAddFeedback
    \/ CtxAddExample
    \/ GenCall
    \/ GenServiceError

SpecContext == InitContext /\ [][NextContext]_vars

\* the history entries of another text than the request's
OtherTexts == SelectSeq(ctx.feedback_history, LAMBDA e : e.text_id # gen.text_id)

\* C13: the feedback given to a request contains no entry of the request's own
\* text_id, has at most 5 entries, and is the first (up to 5) entries of the history
\* with another text_id, in history order; the examples given to a generation
\* request are the first (up to 3) examples of the store, in store order.
C13_RelevantContext ==
    gen.pc = "await_completion" =>
        /\ Len(gen.feedback) <= 5
        /\ Len(gen.feedback) = (IF Len(OtherTexts) < 5 THEN Len(OtherTexts) ELSE 5)
        /\ \A i \in 1..Len(gen.feedback) :
              /\ gen.feedback[i].feedback = OtherTexts[i].feedback
              /\ gen.feedback[i].improved_shape = OtherTexts[i].improved_shape
              /\ \A j \in 1..Len(ctx.feedback_history) :
                    ctx.feedback_history[j].feedback = gen.feedback[i].feedback
                        => ctx.feedback_history[j].text_id # gen.text_id
        /\ gen.kind = "generate_shape" =>
              /\ Len(gen.examples) = (IF Len(ctx.examples) < 3 THEN Len(ctx.examples) ELSE 3)
              /\ \A i \in 1..Len(gen.examples) : gen.examples[i] = ctx.examples[i]

\* a request with five entries passed, a sixth left out, an entry of its own text
\* among the first five of the history left out, and a fourth example left out
C13_Witness ==
    /\ gen.pc = "await_completion"
    /\ gen.kind = "generate_shape"
    /\ Len(gen.feedback) = 5
    /\ Len(OtherTexts) > 5
    /\ \E j \in 1..5 : ctx.feedback_history[j].text_id = gen.text_id
    /\ Len(gen.examples) = 3
    /\ Len(ctx.examples) = 4

---------------------------------------------------------------------------
(* C14, C15: the fields harvested from an answer.                          *)

NamesOf(fs) == {fs[i].name : i \in 1..Len(fs)}

\* C14: generate_shape(legal_text, text_id) only returns the new fields; the
\* registry's set of names after the call is what it was before the call.
C14_RegistryNamesUnchanged ==
    (gen.pc = "returned" /\ gen.kind = "generate_shape") => Keys(fields) = Keys(pre.fields)

\* C14 as amended: generate_shape returns the new fields and has itself inserted
\* each of them with add_field; after a successful call the registry's names are
\* the names before the call and the names of new_fields, every new name holds a
\* field of new_fields, and the fields present before are as they were.
C14_NewFieldsInserted ==
    (gen.pc = "returned" /\ gen.kind = "generate_shape") =>
        /\ Keys(fields) = Keys(pre.fields) \cup NamesOf(gen.new_fields)
        /\ \A i \in 1..Len(pre.fields) : fields[i] = pre.fields[i]
        /\ \A n \in NamesOf(gen.new_fields) :
              \E i \in 1..Len(gen.new_fields) :
                  fields[IndexOf(fields, n)].field = gen.new_fields[i]
        /\ disk = [exists |-> TRUE, data |-> DumpFields(fields)] \/ gen.new_fields = <<>>

\* a generate_shape call that returned two new fields to a registry that held one
C14_Witness ==
    /\ gen.pc = "returned"
    /\ gen.kind = "generate_shape"
    /\ Len(pre.fields) = 1
    /\ Len(gen.new_fields) = 2
    /\ Len(fields) = 3

\* the statement with subject ex:name that starts at i carries a sh:datatype
DefinesDatatype(text, i) ==
    \E j \in (i + 1)..Len(text) :
        text[j].k = "dt" /\ \A m \in i..j : text[m].k # "dot"

\* C15: every field of new_fields has a name that was no key of the registry when
\* the answer was scanned, no name occurs twice in new_fields, and every name is
\* that of a property definition of the text with an explicit datatype.
C15_NewFieldsDistinctAndTyped ==
    gen.pc = "returned" =>
        /\ \A i \in 1..Len(gen.new_fields) : gen.new_fields[i].name \notin gen.keysAtScan
        /\ \A i, j \in 1..Len(gen.new_fields) :
              gen.new_fields[i].name = gen.new_fields[j].name => i = j
        /\ \A i \in 1..Len(gen.new_fields) :
              \E k \in 1..Len(gen.text) :
                  /\ gen.text[k] = Ex(gen.new_fields[i].name)
                  /\ DefinesDatatype(gen.text, k)

\* what does hold: no returned field has a name the registry held at the scan,
\* and each has the 'xsd:' datatype and the 'ex:' path of a match
C15_NewNamesOnly ==
    gen.pc = "returned" =>
        \A i \in 1..Len(gen.new_fields) :
            /\ gen.new_fields[i].name \notin gen.keysAtScan
            /\ gen.new_fields[i].path = S_ex \o gen.new_fields[i].name
            /\ StartsWith(gen.new_fields[i].datatype, S_xsd)

---------------------------------------------------------------------------
(* Python values of instance properties. A str is its character sequence;  *)
(* None, a bool and an int are marked by a first element that no character *)
(* is, followed by the characters of str(value).                           *)

S_True == <<"T", "r", "u", "e">>
S_False == <<"F", "a", "l", "s", "e">>
S_true == <<"t", "r", "u", "e">>
S_false == <<"f", "a", "l", "s", "e">>
S_None == <<"N", "o", "n", "e">>
S_0 == <<"0">>
S_1 == <<"1">>

PyNone == <<"null">>
PyBool(b) == <<"bool">> \o (IF b THEN S_True ELSE S_False)
PyInt(digits) == <<"int">> \o digits

py_type(v) == IF v # <<>> /\ v[1] \in {"null", "bool", "int", "float"} THEN v[1] ELSE "str"

\* str(value)
py_str(v) ==
    CASE py_type(v) = "str" -> v
      [] py_type(v) = "null" -> S_None
      [] OTHER -> Tail(v)

\* bool(value)
py_bool(v) ==
    CASE py_type(v) = "str" -> v # <<>>
      [] py_type(v) = "null" -> FALSE
      [] py_type(v) = "bool" -> Tail(v) = S_True
      [] OTHER -> \E i \in 2..Len(v) : v[i] \in DigitChars \ {"0"}

\* s.strip(), for blanks
StripSpaces(s) ==
    LET N == {i \in 1..Len(s) : s[i] # " "}
    IN  IF N = {} THEN <<>>
        ELSE SubSeq(s, CHOOSE i \in N : \A j \in N : i <= j,
                       CHOOSE i \in N : \A j \in N : j <= i)

Unsigned(s) ==
    IF StripSpaces(s) # <<>> /\ StripSpaces(s)[1] \in {"+", "-"}
    THEN Tail(StripSpaces(s)) ELSE StripSpaces(s)

Negative(s) == StripSpaces(s) # <<>> /\ StripSpaces(s)[1] = "-"

\* digits with single underscores between them
DigitRun(u) ==
    /\ u # <<>>
    /\ \A i \in 1..Len(u) :
          \/ u[i] \in DigitChars
          \/ u[i] = "_" /\ i > 1 /\ i < Len(u)
                        /\ u[i - 1] \in DigitChars /\ u[i + 1] \in DigitChars

\* the digits of u without leading zeros, "0" when nothing is left
Magnitude(u) ==
    LET d == SelectSeq(u, LAMBDA c : c \in DigitChars)
        N == {i \in 1..Len(d) : d[i] # "0"}
    IN  IF N = {} THEN S_0 ELSE SubSeq(d, CHOOSE i \in N : \A j \in N : i <= j, Len(d))

\* int(value): what it raises, and str() of the integer it returns
py_int(v) ==
    CASE py_type(v) = "str" ->
            IF DigitRun(Unsigned(v))
            THEN [raised |-> "none",
                  text |-> IF Negative(v) /\ Magnitude(Unsigned(v)) # S_0
                           THEN <<"-">> \o Magnitude(Unsigned(v))
                           ELSE Magnitude(Unsigned(v))]
            ELSE [raised |-> "ValueError", text |-> <<>>]
      [] py_type(v) = "null" -> [raised |-> "TypeError", text |-> <<>>]
      [] py_type(v) = "bool" -> [raised |-> "none", text |-> IF py_bool(v) THEN S_1 ELSE S_0]
      [] OTHER -> [raised |-> "none", text |-> Tail(v)]

\* the part of u before and after its decimal point
PointAt(u) == IF \E i \in 1..Len(u) : u[i] = "." THEN CHOOSE i \in 1..Len(u) : u[i] = "." ELSE 0
Whole(u) == IF PointAt(u) = 0 THEN u ELSE SubSeq(u, 1, PointAt(u) - 1)
Fraction(u) == IF PointAt(u) = 0 THEN <<>> ELSE SubSeq(u, PointAt(u) + 1, Len(u))

\* a decimal numeral without exponent: digits, at most one point, a digit on one side
DecimalRun(u) ==
    /\ Whole(u) # <<>> \/ Fraction(u) # <<>>
    /\ Whole(u) = <<>> \/ DigitRun(Whole(u))
    /\ Fraction(u) = <<>> \/ DigitRun(Fraction(u))

\* the fraction digits without trailing zeros, "0" when nothing is left
Trimmed(f) ==
    LET d == SelectSeq(f, LAMBDA c : c \in DigitChars)
        N == {i \in 1..Len(d) : d[i] # "0"}
    IN  IF N = {} THEN S_0 ELSE SubSeq(d, 1, CHOOSE i \in N : \A j \in N : j <= i)

S_inf == <<"i", "n", "f">>
S_nan == <<"n", "a", "n">>
S_infinity == S_inf \o <<"i", "n", "i", "t", "y">>

\* float(value): what it raises, and str() of the float it returns (numerals with an
\* exponent are not among the values of the model)
py_float(v) ==
    CASE py_type(v) = "str" ->
            IF Lower(Unsigned(v)) \in {S_inf, S_infinity}
            THEN [raised |-> "none", text |-> (IF Negative(v) THEN <<"-">> ELSE <<>>) \o S_inf]
            ELSE IF Lower(Unsigned(v)) = S_nan
            THEN [raised |-> "none", text |-> S_nan]
            ELSE IF DecimalRun(Unsigned(v))
            THEN [raised |-> "none",
                  text |-> (IF Negative(v) THEN <<"-">> ELSE <<>>)
                           \o Magnitude(Whole(Unsigned(v))) \o <<".">>
                           \o Trimmed(Fraction(Unsigned(v)))]
            ELSE [raised |-> "ValueError", text |-> <<>>]
      [] py_type(v) = "null" -> [raised |-> "TypeError", text |-> <<>>]
      [] py_type(v) = "bool" ->
            [raised |-> "none", text |-> (IF py_bool(v) THEN S_1 ELSE S_0) \o <<".", "0">>]
      [] OTHER -> [raised |-> "none", text |-> Tail(v) \o <<".", "0">>]

\* a == b for a value a and the bool b: True equals 1 and False equals 0
py_eq_bool(v, b) ==
    CASE py_type(v) = "bool" -> py_bool(v) = b
      [] py_type(v) = "int" -> Tail(v) = (IF b THEN S_1 ELSE S_0)
      [] OTHER -> FALSE

\* field.constraints.get('minCount', 0) > 0: a str or None against an int is a TypeError
min_count_positive(field) ==
    IF "minCount" \notin DOMAIN field.constraints THEN "False"
    ELSE CASE py_type(field.constraints["minCount"]) \in {"str", "null"} -> "TypeError"
           [] py_type(field.constraints["minCount"]) = "bool" ->
                 IF py_bool(field.constraints["minCount"]) THEN "True" ELSE "False"
           [] OTHER ->
                 IF /\ py_bool(field.constraints["minCount"])
                    /\ field.constraints["minCount"][2] # "-"
                 THEN "True" ELSE "False"

---------------------------------------------------------------------------
(* re.match for the patterns of the model: a sequence of atoms (a literal  *)
(* character, '.', or '\d'), each with an optional '+', '*' or '?', and an *)
(* optional '^' in front and '$' at the end.                               *)

Backslash == "\\"

\* the pattern from position i on matches a prefix of s from position j on
RECURSIVE MatchHere(_, _, _, _)
MatchHere(p, i, s, j) ==
    IF i > Len(p) THEN TRUE
    ELSE IF p[i] = "$" /\ i = Len(p) THEN j > Len(s)
    ELSE LET w == IF p[i] = Backslash THEN 2 ELSE 1
             atom(c) == IF p[i] = Backslash THEN p[i + 1] = "d" /\ c \in DigitChars
                        ELSE p[i] = "." \/ p[i] = c
             q == IF i + w <= Len(p) /\ p[i + w] \in {"+", "*", "?"} THEN p[i + w] ELSE ""
             \* the ends of the runs of characters the atom may take from j on
             runs == {k \in j..(Len(s) + 1) : \A m \in j..(k - 1) : atom(s[m])}
         IN  CASE q = "" -> j <= Len(s) /\ atom(s[j]) /\ MatchHere(p, i + w, s, j + 1)
               [] q = "?" -> \E k \in runs : k <= j + 1 /\ MatchHere(p, i + w + 1, s, k)
               [] q = "*" -> \E k \in runs : MatchHere(p, i + w + 1, s, k)
               [] q = "+" -> \E k \in runs : k > j /\ MatchHere(p, i + w + 1, s, k)

\* re.match(pattern, string) is not None
re_match(pattern, string) ==
    MatchHere(pattern, IF pattern # <<>> /\ pattern[1] = "^" THEN 2 ELSE 1, string, 1)

---------------------------------------------------------------------------
(* InstanceStore.                                                          *)

S_boolean == <<"b", "o", "o", "l", "e", "a", "n">>
S_date == <<"d", "a", "t", "e">>
S_citizen_ == <<"c", "i", "t", "i", "z", "e", "n", "_">>
S_Citizen == <<"C", "i", "t", "i", "z", "e", "n">>
S_rdf_type == <<"r", "d", "f", ":", "t", "y", "p", "e">>

\* Namespace("https://foerderfunke.org/default#")
FF == <<"h", "t", "t", "p", "s", ":", "/", "/", "f", "o", "e", "r", "d", "e", "r", "f", "u",
        "n", "k", "e", ".", "o", "r", "g", "/", "d", "e", "f", "a", "u", "l", "t", "#">>

\* s.replace(a, b) for single characters
ReplaceChar(s, a, b) == [i \in 1..Len(s) |-> IF s[i] = a THEN b ELSE s[i]]

\* a plausible slip: hyphens are left as they are
safe_id_spaces_only(instance_id) == Lower(ReplaceChar(instance_id, " ", "_"))

\* instance_id.replace(" ", "_").replace("-", "_").lower()
safe_id(instance_id) == Lower(ReplaceChar(ReplaceChar(instance_id, " ", "_"), "-", "_"))

\* field_registry.get_field(name), for a name the registry holds
get_field(fs, name) == fs[IndexOf(fs, name)].field

\* datatype.split(':')[1]
AfterFirstColon(s) ==
    LET C == {i \in 1..Len(s) : s[i] = ":"}
        c1 == CHOOSE i \in C : \A j \in C : i <= j
        R == {i \in C : i > c1}
    IN  IF R = {} THEN SubSeq(s, c1 + 1, Len(s))
        ELSE SubSeq(s, c1 + 1, (CHOOSE i \in R : \A j \in R : i <= j) - 1)

\* the datatype and pattern checks of _validate_value
validate_datatype_and_pattern(field, value) ==
    LET datatype == IF StartsWith(field.datatype, S_xsd)
                    THEN AfterFirstColon(field.datatype) ELSE <<>>
        pattern_ok == "pattern" \notin DOMAIN field.constraints
                      \/ re_match(field.constraints["pattern"], py_str(value))
    IN  CASE datatype = S_integer /\ py_int(value).raised # "none" -> "False"
          [] datatype = S_decimal /\ py_float(value).raised # "none" -> "False"
          [] datatype = S_boolean ->
                IF \/ py_eq_bool(value, TRUE) \/ py_eq_bool(value, FALSE)
                   \/ value = S_true \/ value = S_false
                THEN "True" ELSE "False"
          [] OTHER -> IF pattern_ok THEN "True" ELSE "False"

\* _validate_value(field, value): "True", "False", or the TypeError of the comparison
validate_value(field, value) ==
    IF ~py_bool(value) /\ min_count_positive(field) # "False"
    THEN (IF min_count_positive(field) = "True" THEN "False" ELSE "TypeError")
    ELSE validate_datatype_and_pattern(field, value)

\* the validation loop of create_instance over properties.items(), from item i on
RECURSIVE validate_properties(_, _, _)
validate_properties(fs, properties, i) ==
    IF i > Len(properties) THEN [outcome |-> "ok", field |-> <<>>]
    ELSE IF ~HasKey(fs, properties[i].name)
    THEN [outcome |-> "ValueError", field |-> properties[i].name]
    ELSE CASE validate_value(get_field(fs, properties[i].name), properties[i].value) = "TypeError"
                 -> [outcome |-> "TypeError", field |-> <<>>]
           [] validate_value(get_field(fs, properties[i].name), properties[i].value) = "False"
                 -> [outcome |-> "ValueError", field |-> properties[i].name]
           [] OTHER -> validate_properties(fs, properties, i + 1)

TypedLit(s, dt) == [kind |-> "lit", s |-> s, lang |-> "", dt |-> dt]

\* _to_literal(value, datatype), for a value that passed _validate_value
to_literal(value, datatype) ==
    CASE datatype = S_xsd_integer -> TypedLit(py_int(value).text, "integer")
      [] datatype = S_xsd \o S_decimal -> TypedLit(py_float(value).text, "decimal")
      [] datatype = S_xsd \o S_boolean ->
            TypedLit(IF py_bool(value) THEN S_true ELSE S_false, "boolean")
      [] datatype = S_xsd \o S_date ->
            TypedLit(IF py_type(value) = "bool" THEN Lower(py_str(value)) ELSE py_str(value),
                     "date")
      [] OTHER -> Lit(py_str(value), "")

\* the predicate of a field: its path in the FF namespace when it starts with 'ff:'
predicate(field) ==
    IF StartsWith(field.path, S_ff)
    THEN Uri(FF \o SubSeq(field.path, Len(S_ff) + 1, Len(field.path)))
    ELSE Uri(field.path)

instance_uri(id) == Uri(FF \o S_citizen_ \o id)

\* the graph create_instance builds: a set of triples
instance_graph(fs, id, properties) ==
    {Triple(instance_uri(id), Uri(S_rdf_type), Uri(FF \o S_Citizen))}
    \cup {Triple(instance_uri(id),
                 predicate(get_field(fs, properties[i].name)),
                 to_literal(properties[i].value, get_field(fs, properties[i].name).datatype)) :
             i \in 1..Len(properties)}

CitizenInstance(instance_id, properties, graph) ==
    [instance_id |-> instance_id, properties |-> properties, graph |-> graph]

Remove(m, k) == [x \in DOMAIN m \ {k} |-> m[x]]

InstanceFiles == {"properties.yaml", "instance.ttl"}
InstSaveOutcomes == {"ok", "mkdir_fails", "dump_fails", "serialize_fails"}

\* the files of the directory `id`, none when there is no such directory
FilesOf(dirs, id) == IF id \in DOMAIN dirs THEN dirs[id] ELSE {}

\* _save_instance(instance): mkdir(exist_ok=True), then properties.yaml is opened
\* for writing and dumped, then instance.ttl is serialized; a failing step leaves
\* the files made before it
save_instance(dirs, instance, outcome) ==
    CASE outcome = "mkdir_fails" -> dirs
      [] outcome \in {"dump_fails", "serialize_fails"} ->
            Put(dirs, instance.instance_id,
                FilesOf(dirs, instance.instance_id) \cup {"properties.yaml"})
      [] OTHER -> Put(dirs, instance.instance_id, InstanceFiles)

\* a plausible slip: a name whose key is taken is refused
create_instance_unique(st, fs, instance_id, properties, outcome) ==
    LET v == validate_properties(fs, properties, 1)
        instance == CitizenInstance(safe_id(instance_id), properties,
                                    instance_graph(fs, safe_id(instance_id), properties))
    IN  IF v.outcome # "ok"
        THEN [instances |-> st.instances, dirs |-> st.dirs,
              outcome |-> v.outcome, field |-> v.field, ret |-> <<>>]
        ELSE IF safe_id(instance_id) \in DOMAIN st.instances
        THEN [instances |-> st.instances, dirs |-> st.dirs,
              outcome |-> "ValueError", field |-> <<>>, ret |-> <<>>]
        ELSE [instances |-> Put(st.instances, safe_id(instance_id), instance),
              dirs |-> save_instance(st.dirs, instance, outcome),
              outcome |-> IF outcome = "ok" THEN "ok" ELSE "OSError",
              field |-> <<>>,
              ret |-> IF outcome = "ok" THEN instance ELSE <<>>]

\* create_instance(instance_id, properties): the store after the call, what the
\* call raised, the field its message names, and the instance it returned
create_instance(st, fs, instance_id, properties, outcome) ==
    LET v == validate_properties(fs, properties, 1)
        instance == CitizenInstance(safe_id(instance_id), properties,
                                    instance_graph(fs, safe_id(instance_id), properties))
    IN  IF v.outcome # "ok"
        THEN [instances |-> st.instances, dirs |-> st.dirs,
              outcome |-> v.outcome, field |-> v.field, ret |-> <<>>]
        ELSE [instances |-> Put(st.instances, safe_id(instance_id), instance),
              dirs |-> save_instance(st.dirs, instance, outcome),
              outcome |-> IF outcome = "ok" THEN "ok" ELSE "OSError",
              field |-> <<>>,
              ret |-> IF outcome = "ok" THEN instance ELSE <<>>]

\* what pyshacl's validate may answer: the flag and, per validation result of the
\* results graph, its sh:resultMessage (<<>> for a result without one)
OracleAnswers ==
    {[conforms |-> c, results |-> r] :
        c \in BOOLEAN, r \in {<<>>, <<<<"m", "1">>>>, <<<<"m", "1">>, <<>>, <<"m", "2">>>>}}

\* a plausible slip: the messages are collected whatever the flag says
validate_instance_all_messages(st, instance_id, answer) ==
    IF instance_id \notin DOMAIN st.instances
    THEN [outcome |-> "ValueError", consulted |-> FALSE, ret |-> <<>>]
    ELSE [outcome |-> "ok", consulted |-> TRUE,
          ret |-> [conforms |-> answer.conforms,
                   messages |-> SelectSeq(answer.results, LAMBDA m : m # <<>>)]]

\* validate_instance(instance_id, shape)
validate_instance(st, instance_id, answer) ==
    IF instance_id \notin DOMAIN st.instances
    THEN [outcome |-> "ValueError", consulted |-> FALSE, ret |-> <<>>]
    ELSE [outcome |-> "ok", consulted |-> TRUE,
          ret |-> [conforms |-> answer.conforms,
                   messages |-> IF ~answer.conforms
                                THEN SelectSeq(answer.results, LAMBDA m : m # <<>>)
                                ELSE <<>>]]

DeleteOutcomes == {"ok", "unlink_fails", "rmdir_fails"}

\* the directory removal of delete_instance / delete_shape: every file is unlinked,
\* then the directory is removed; a failing unlink leaves the files not yet
\* unlinked, a failing rmdir the empty directory
remove_dir(dirs, id, outcome, left) ==
    IF id \notin DOMAIN dirs THEN dirs
    ELSE CASE outcome = "unlink_fails" -> [dirs EXCEPT ![id] = left]
           [] outcome = "rmdir_fails" -> [dirs EXCEPT ![id] = {}]
           [] OTHER -> Remove(dirs, id)

\* a plausible slip: the files are removed and the directory is left behind
delete_instance_keep_dir(st, instance_id, outcome, left) ==
    IF instance_id \notin DOMAIN st.instances
    THEN [instances |-> st.instances, dirs |-> st.dirs, outcome |-> "ValueError"]
    ELSE [instances |-> Remove(st.instances, instance_id),
          dirs |-> remove_dir(st.dirs, instance_id, "rmdir_fails", left),
          outcome |-> "ok"]

\* delete_instance(instance_id)
delete_instance(st, instance_id, outcome, left) ==
    IF instance_id \notin DOMAIN st.instances
    THEN [instances |-> st.instances, dirs |-> st.dirs, outcome |-> "ValueError"]
    ELSE IF instance_id \in DOMAIN st.dirs /\ outcome # "ok"
    THEN [instances |-> st.instances,
          dirs |-> remove_dir(st.dirs, instance_id, outcome, left),
          outcome |-> "OSError"]
    ELSE [instances |-> Remove(st.instances, instance_id),
          dirs |-> remove_dir(st.dirs, instance_id, "ok", left),
          outcome |-> "ok"]

---------------------------------------------------------------------------
(* ShapeStore.                                                             *)

ShaclShape(shape_id, legal_text, graph, created_at, updated_at, description) ==
    [shape_id |-> shape_id, legal_text |-> legal_text, graph |-> graph,
     created_at |-> created_at, updated_at |-> updated_at, description |-> description]

ShapeFiles == {"metadata.yaml", "legal_text.txt", "shape.ttl"}
ShpSaveOutcomes == {"ok", "mkdir_fails", "metadata_fails", "text_fails", "serialize_fails"}

\* _save_shape(shape): mkdir(exist_ok=True), then metadata.yaml, legal_text.txt and
\* shape.ttl are written in this order; a failing step leaves the files made
\* before it and the file it had opened
save_shape(dirs, shape, outcome) ==
    CASE outcome = "mkdir_fails" -> dirs
      [] outcome = "metadata_fails" ->
            Put(dirs, shape.shape_id, FilesOf(dirs, shape.shape_id) \cup {"metadata.yaml"})
      [] outcome \in {"text_fails", "serialize_fails"} ->
            Put(dirs, shape.shape_id,
                FilesOf(dirs, shape.shape_id) \cup {"metadata.yaml", "legal_text.txt"})
      [] OTHER -> Put(dirs, shape.shape_id, ShapeFiles)

\* add_shape(shape_id, legal_text, graph, description) at the time `now`
add_shape(st, shape_id, legal_text, graph, description, now, outcome) ==
    LET shape == ShaclShape(shape_id, legal_text, graph, now, now, description)
    IN  [shapes |-> Put(st.shapes, shape_id, shape),
         dirs |-> save_shape(st.dirs, shape, outcome),
         outcome |-> IF outcome = "ok" THEN "ok" ELSE "OSError"]

\* a plausible slip: an unknown shape is created instead of refused
update_shape_or_create(st, shape_id, graph, description, now, outcome) ==
    LET shape == IF shape_id \in DOMAIN st.shapes
                 THEN [st.shapes[shape_id] EXCEPT
                          !.graph = graph, !.updated_at = now,
                          !.description = IF description # PyNone THEN description ELSE @]
                 ELSE ShaclShape(shape_id, <<>>, graph, now, now, description)
    IN  [shapes |-> Put(st.shapes, shape_id, shape),
         dirs |-> save_shape(st.dirs, shape, outcome),
         outcome |-> IF outcome = "ok" THEN "ok" ELSE "OSError"]

\* a plausible slip: the description is overwritten also when None is passed
update_shape_description_always(st, shape_id, graph, description, now, outcome) ==
    IF shape_id \notin DOMAIN st.shapes
    THEN [shapes |-> st.shapes, dirs |-> st.dirs, outcome |-> "ValueError"]
    ELSE LET shape == [st.shapes[shape_id] EXCEPT
                          !.graph = graph, !.updated_at = now,
                          !.description = description]
         IN  [shapes |-> Put(st.shapes, shape_id, shape),
              dirs |-> save_shape(st.dirs, shape, outcome),
              outcome |-> IF outcome = "ok" THEN "ok" ELSE "OSError"]

\* update_shape(shape_id, graph, description) at the time `now`
update_shape(st, shape_id, graph, description, now, outcome) ==
    IF shape_id \notin DOMAIN st.shapes
    THEN [shapes |-> st.shapes, dirs |-> st.dirs, outcome |-> "ValueError"]
    ELSE LET shape == [st.shapes[shape_id] EXCEPT
                          !.graph = graph, !.updated_at = now,
                          !.description = IF description # PyNone THEN description ELSE @]
         IN  [shapes |-> Put(st.shapes, shape_id, shape),
              dirs |-> save_shape(st.dirs, shape, outcome),
              outcome |-> IF outcome = "ok" THEN "ok" ELSE "OSError"]

\* delete_shape(shape_id)
delete_shape(st, shape_id, outcome, left) ==
    IF shape_id \notin DOMAIN st.shapes
    THEN [shapes |-> st.shapes, dirs |-> st.dirs, outcome |-> "ValueError"]
    ELSE IF shape_id \in DOMAIN st.dirs /\ outcome # "ok"
    THEN [shapes |-> st.shapes,
          dirs |-> remove_dir(st.dirs, shape_id, outcome, left),
          outcome |-> "OSError"]
    ELSE [shapes |-> Remove(st.shapes, shape_id),
          dirs |-> remove_dir(st.dirs, shape_id, "ok", left),
          outcome |-> "ok"]

---------------------------------------------------------------------------
(* The stores as state machines. Every call is one action; its inputs and  *)
(* the outcome of its file operations are chosen from the sets it is given. *)

S_abc == <<"a", "b", "c">>
S_1_5 == <<"1", ".", "5">>
S_height == <<"h", "e", "i", "g", "h", "t">>
S_employed == <<"e", "m", "p", "l", "o", "y", "e", "d">>
S_Jane_Doe == <<"J", "a", "n", "e", " ", "D", "o", "e">>
S_jane_hyphen_doe == <<"j", "a", "n", "e", "-", "d", "o", "e">>
S_jane_doe == <<"j", "a", "n", "e", "_", "d", "o", "e">>
S_Al == <<"A", "l">>
S_al == <<"a", "l">>
S_Bo == <<"B", "o">>
S_bo == <<"b", "o">>
S_two_digits == <<Backslash, "d", Backslash, "d">>

\* the registry the InstanceStore is constructed with: 'age' as import_from_shacl
\* records a field with sh:minCount 1 (the count is kept as a str), 'income' as
\* generate_shape adds a field, 'employed', and 'zip' as a caller constructs a
\* field with a pattern and an int minCount
StoreFields ==
    LET constraints_age == Put(NoConstraints, "minCount", S_1)
        constraints_zip == Put(Put(NoConstraints, "pattern", S_two_digits),
                               "minCount", PyInt(S_1))
        age == DataField(S_age, S_ff \o S_age, S_xsd_integer, <<>>, <<>>, <<>>, constraints_age)
        income == DataField(S_income, S_ex \o S_income, S_xsd \o S_decimal,
                            S_field_for \o S_income, <<>>, <<>>, NoConstraints)
        employed == DataField(S_employed, S_ff \o S_employed, S_xsd \o S_boolean,
                              <<>>, <<>>, <<>>, NoConstraints)
        zip == DataField(S_zip, S_ff \o S_zip, S_xsd_string, <<>>, <<>>, <<>>, constraints_zip)
    IN  DictSet(DictSet(DictSet(DictSet(<<>>, S_age, age), S_income, income),
                        S_employed, employed), S_zip, zip)

Prop(name, value) == [name |-> name, value |-> value]

\* the property mappings given to create_instance, as their items() in order
PropertyDicts ==
    {<<>>}
    \cup {<<Prop(S_age, v)>> : v \in {S_17, S_abc, S_empty, PyNone}}
    \cup {<<Prop(S_income, v)>> : v \in {S_1_5, S_17, S_abc}}
    \cup {<<Prop(S_employed, v)>> :
             v \in {S_true, S_false, PyBool(TRUE), PyBool(FALSE), S_abc, PyInt(S_0)}}
    \cup {<<Prop(S_zip, v)>> : v \in {S_17, S_abc, S_empty}}
    \cup {<<Prop(S_height, S_17)>>}
    \cup {<<Prop(S_age, S_17), Prop(S_zip, S_abc)>>,
          <<Prop(S_height, S_17), Prop(S_age, S_abc)>>,
          <<Prop(S_age, S_17), Prop(S_employed, S_false)>>}

InitStores ==
    /\ fields = StoreFields
    /\ disk = [exists |-> FALSE, data |-> <<>>]
    /\ pre = [fields |-> fields, disk |-> disk]
    /\ last = NoCall
    /\ gen = GenIdle
    /\ imp = ImpIdle
    /\ ctx = CtxIdle
    /\ inst = InstIdle
    /\ shp = ShpIdle
    /\ app = AppIdle
    /\ wr = WrIdle

\* the history of a store that was not the last one called
InstHistory(st) == [st EXCEPT !.pre = InstIdle.pre, !.last = InstIdle.last]
ShpHistory(st) == [st EXCEPT !.pre = ShpIdle.pre, !.last = ShpIdle.last]

\* the calls instance_id x properties x outcome of the given sets
Calls(names, dicts, outcomes) ==
    {[instance_id |-> n, properties |-> d, outcome |-> o] :
        n \in names, d \in dicts, o \in outcomes}

InstCreate(calls) ==
    \E c \in calls :
        \E r \in {create_instance(inst, fields, c.instance_id, c.properties, c.outcome)} :
            /\ inst' = [instances |-> r.instances, dirs |-> r.dirs,
                        pre |-> [instances |-> inst.instances, dirs |-> inst.dirs],
                        last |-> [op |-> "create_instance", id |-> c.instance_id,
                                  properties |-> c.properties, outcome |-> r.outcome,
                                  field |-> r.field, ret |-> r.ret,
                                  consulted |-> FALSE, answer |-> <<>>]]
            /\ shp' = ShpHistory(shp)
            /\ UNCHANGED <<fields, disk, pre, last, gen, imp, ctx, app, wr>>

InstValidate(ids) ==
    \E instance_id \in ids, answer \in OracleAnswers :
        \E r \in {validate_instance(inst, instance_id, answer)} :
            /\ inst' = [inst EXCEPT
                          !.pre = [instances |-> inst.instances, dirs |-> inst.dirs],
                          !.last = [op |-> "validate_instance", id |-> instance_id,
                                    properties |-> <<>>, outcome |-> r.outcome,
                                    field |-> <<>>, ret |-> r.ret,
                                    consulted |-> r.consulted,
                                    answer |-> IF r.consulted THEN answer ELSE <<>>]]
            /\ shp' = ShpHistory(shp)
            /\ UNCHANGED <<fields, disk, pre, last, gen, imp, ctx, app, wr>>

\* the outcomes of removing the directory `id`, with the files a failing unlink leaves
Removals(dirs, id, outcomes) ==
    {[outcome |-> o, left |-> l] :
        o \in outcomes \ {"unlink_fails"}, l \in {{}}}
    \cup {[outcome |-> o, left |-> l] :
            o \in outcomes \cap {"unlink_fails"}, l \in (SUBSET FilesOf(dirs, id)) \ {{}}}

InstDelete(ids, outcomes) ==
    \E instance_id \in ids :
        \E x \in Removals(inst.dirs, instance_id, outcomes) :
            \E r \in {delete_instance(inst, instance_id, x.outcome, x.left)} :
                /\ inst' = [instances |-> r.instances, dirs |-> r.dirs,
                            pre |-> [instances |-> inst.instances, dirs |-> inst.dirs],
                            last |-> [op |-> "delete_instance", id |-> instance_id,
                                      properties |-> <<>>, outcome |-> r.outcome,
                                      field |-> <<>>, ret |-> <<>>,
                                      consulted |-> FALSE, answer |-> <<>>]]
                /\ shp' = ShpHistory(shp)
                /\ UNCHANGED <<fields, disk, pre, last, gen, imp, ctx, app, wr>>

MaxClock == 2       \* the latest time datetime.now() returns

\* datetime.now(): the time of the last call or a later one
Now(ticks) == {shp.clock + d : d \in ticks} \cap 0..MaxClock

ShpAdd(ids, graphs, descriptions, ticks, outcomes) ==
    \E shape_id \in ids, graph \in graphs, description \in descriptions,
       now \in Now(ticks), outcome \in outcomes :
        \E r \in {add_shape(shp, shape_id, <<"l">> \o shape_id, graph, description,
                            now, outcome)} :
            /\ shp' = [shapes |-> r.shapes, dirs |-> r.dirs, clock |-> now,
                       pre |-> [shapes |-> shp.shapes, dirs |-> shp.dirs],
                       last |-> [op |-> "add_shape", id |-> shape_id, graph |-> graph,
                                 description |-> description, outcome |-> r.outcome,
                                 now |-> now]]
            /\ inst' = InstHistory(inst)
            /\ UNCHANGED <<fields, disk, pre, last, gen, imp, ctx, app, wr>>

ShpUpdate(ids, graphs, descriptions, ticks, outcomes) ==
    \E shape_id \in ids, graph \in graphs, description \in descriptions,
       now \in Now(ticks), outcome \in outcomes :
        \E r \in {update_shape(shp, shape_id, graph, description, now, outcome)} :
            /\ shp' = [shapes |-> r.shapes, dirs |-> r.dirs,
                       clock |-> IF r.outcome = "ValueError" THEN shp.clock ELSE now,
                       pre |-> [shapes |-> shp.shapes, dirs |-> shp.dirs],
                       last |-> [op |-> "update_shape", id |-> shape_id, graph |-> graph,
                                 description |-> description, outcome |-> r.outcome,
                                 now |-> now]]
            /\ inst' = InstHistory(inst)
            /\ UNCHANGED <<fields, disk, pre, last, gen, imp, ctx, app, wr>>

ShpDelete(ids, outcomes) ==
    \E shape_id \in ids :
        \E x \in Removals(shp.dirs, shape_id, outcomes) :
            \E r \in {delete_shape(shp, shape_id, x.outcome, x.left)} :
                /\ shp' = [shp EXCEPT
                             !.shapes = r.shapes, !.dirs = r.dirs,
                             !.pre = [shapes |-> shp.shapes, dirs |-> shp.dirs],
                             !.last = [op |-> "delete_shape", id |-> shape_id,
                                       graph |-> <<>>, description |-> <<>>,
                                       outcome |-> r.outcome, now |-> shp.clock]]
                /\ inst' = InstHistory(inst)
                /\ UNCHANGED <<fields, disk, pre, last, gen, imp, ctx, app, wr>>

\* one InstanceStore: every property mapping under one name, and the names that
\* normalize to one key with every outcome of the save
InstanceNames == {S_Jane_Doe, S_jane_hyphen_doe, S_jane_doe}
InstanceIds == {S_jane_doe, S_Jane_Doe}

CreateInstance ==
    InstCreate(Calls({S_Jane_Doe}, PropertyDicts, {"ok"})
               \cup Calls(InstanceNames, {<<>>, <<Prop(S_age, S_17)>>}, InstSaveOutcomes))
ValidateInstance == InstValidate(InstanceIds)
DeleteInstance == InstDelete(InstanceIds, {"ok", "rmdir_fails"})

NextInstances ==
    \/ CreateInstance
    \/ ValidateInstance
    \/ DeleteInstance

SpecInstances == InitStores /\ [][NextInstances]_vars

\* both stores, with two keys each
ShapeIds == {<<"s", "1">>, <<"s", "2">>}
G1 == <<"g", "1">>
G2 == <<"g", "2">>
D1 == <<"d", "1">>

StoresCreateInstance == InstCreate(Calls({S_Al, S_Bo}, {<<>>}, {"ok"}))
StoresDeleteInstance == InstDelete({S_al, S_bo}, {"ok", "unlink_fails"})
StoresAddShape == ShpAdd(ShapeIds, {G1}, {PyNone}, {0}, {"ok"})
StoresUpdateShape == ShpUpdate(ShapeIds, {G2}, {D1}, {0}, {"ok"})
StoresDeleteShape == ShpDelete(ShapeIds, {"ok", "rmdir_fails"})

NextStores ==
    \/ StoresCreateInstance
    \/ StoresDeleteInstance
    \/ StoresAddShape
    \/ StoresUpdateShape
    \/ StoresDeleteShape

SpecStores == InitStores /\ [][NextStores]_vars

---------------------------------------------------------------------------
(* C16 - C19: InstanceStore calls.                                         *)

\* the property names an unknown field, or its value is not parseable as the
\* field's integer / decimal datatype, or is no boolean for a boolean field, or
\* does not match the field's pattern
Offending(fs, prop) ==
    \/ ~HasKey(fs, prop.name)
    \/ /\ HasKey(fs, prop.name)
       /\ LET field == get_field(fs, prop.name)
          IN  \/ field.datatype = S_xsd_integer /\ py_int(prop.value).raised # "none"
              \/ field.datatype = S_xsd \o S_decimal /\ py_float(prop.value).raised # "none"
              \/ /\ field.datatype = S_xsd \o S_boolean
                 /\ ~py_eq_bool(prop.value, TRUE) /\ ~py_eq_bool(prop.value, FALSE)
                 /\ prop.value \notin {S_true, S_false}
              \/ /\ "pattern" \in DOMAIN field.constraints
                 /\ ~re_match(field.constraints["pattern"], py_str(prop.value))

OffendingNames(fs, properties) ==
    {properties[i].name : i \in {j \in 1..Len(properties) : Offending(fs, properties[j])}}

\* C16: create_instance fails with a validation error that names an offending
\* field whenever a supplied property names an unknown field, is not parseable as
\* the field's integer / decimal datatype, is a boolean-typed value outside
\* {true, false}, or does not match the field's pattern; and on failure the
\* in-memory instance map and the instance directories are unchanged.
C16_ValidationErrorNamesField ==
    (inst.last.op = "create_instance"
        /\ OffendingNames(fields, inst.last.properties) # {}) =>
        /\ inst.last.outcome = "ValueError"
        /\ inst.last.field \in OffendingNames(fields, inst.last.properties)
        /\ inst.instances = inst.pre.instances
        /\ inst.dirs = inst.pre.dirs

\* what does hold: an offending property makes the call fail, naming an offending
\* field unless the minCount comparison raised, and a call that fails in
\* validation leaves the map and the directories as they were
C16_FailsBeforeMutation ==
    (inst.last.op = "create_instance"
        /\ OffendingNames(fields, inst.last.properties) # {}) =>
        /\ inst.last.outcome \in {"ValueError", "TypeError"}
        /\ inst.last.outcome = "ValueError"
              => inst.last.field \in OffendingNames(fields, inst.last.properties)
        /\ inst.instances = inst.pre.instances
        /\ inst.dirs = inst.pre.dirs

\* the key the claim describes: every space and hyphen an underscore, lower-cased
NormalizedName(name) ==
    [i \in 1..Len(name) |->
        IF name[i] \in {" ", "-"} THEN "_"
        ELSE IF name[i] \in DOMAIN UpperToLower THEN UpperToLower[name[i]] ELSE name[i]]

\* C17: a successful create_instance(name, properties) stores the instance under
\* the key obtained from name by replacing every space and hyphen with an
\* underscore and lower-casing ("Jane Doe" gives "jane_doe"); the returned
\* instance's instance_id is that key, its properties are the supplied mapping,
\* and normalizing the key gives the key.
C17_NormalizedKey ==
    (inst.last.op = "create_instance" /\ inst.last.outcome = "ok") =>
        /\ NormalizedName(inst.last.id) \in DOMAIN inst.instances
        /\ inst.instances[NormalizedName(inst.last.id)] = inst.last.ret
        /\ inst.last.ret.instance_id = NormalizedName(inst.last.id)
        /\ inst.last.ret.properties = inst.last.properties
        /\ inst.last.id = S_Jane_Doe => inst.last.ret.instance_id = S_jane_doe
        /\ safe_id(inst.last.ret.instance_id) = inst.last.ret.instance_id
        /\ DOMAIN inst.instances = DOMAIN inst.pre.instances \cup {NormalizedName(inst.last.id)}

\* "jane-doe" with a property was stored under "jane_doe"
C17_Witness ==
    /\ inst.last.op = "create_instance"
    /\ inst.last.outcome = "ok"
    /\ inst.last.id = S_jane_hyphen_doe
    /\ inst.last.properties = <<Prop(S_age, S_17)>>
    /\ S_jane_doe \in DOMAIN inst.instances
    /\ inst.instances[S_jane_doe].properties = <<Prop(S_age, S_17)>>

\* the literal the claim describes: the field's datatype and the value supplied
DenotedLiteral(value, datatype) ==
    CASE datatype = S_xsd_integer -> TypedLit(py_int(value).text, "integer")
      [] datatype = S_xsd \o S_decimal -> TypedLit(py_float(value).text, "decimal")
      [] datatype = S_xsd \o S_boolean ->
            TypedLit(IF py_eq_bool(value, TRUE) \/ value = S_true THEN S_true ELSE S_false,
                     "boolean")
      [] OTHER -> Lit(py_str(value), "")

\* C18: the graph built by create_instance holds, besides the type triple, exactly
\* one triple per supplied property, whose predicate is the field's path and whose
\* literal has the field's datatype and the value supplied: "17" for an
\* xsd:integer field is the integer 17, and for an xsd:boolean field True and
\* 'true' are true, False and 'false' are false.
C18_GraphLiterals ==
    (inst.last.op = "create_instance" /\ inst.last.outcome = "ok") =>
        /\ Cardinality(inst.last.ret.graph) = 1 + Len(inst.last.properties)
        /\ Triple(instance_uri(inst.last.ret.instance_id), Uri(S_rdf_type),
                  Uri(FF \o S_Citizen)) \in inst.last.ret.graph
        /\ \A i \in 1..Len(inst.last.properties) :
              Triple(instance_uri(inst.last.ret.instance_id),
                     predicate(get_field(fields, inst.last.properties[i].name)),
                     DenotedLiteral(inst.last.properties[i].value,
                                    get_field(fields, inst.last.properties[i].name).datatype))
                 \in inst.last.ret.graph

\* what does hold: the same, for every property that is not the str 'false' of a
\* boolean field
C18_GraphLiteralsButFalse ==
    (inst.last.op = "create_instance" /\ inst.last.outcome = "ok") =>
        /\ Cardinality(inst.last.ret.graph) = 1 + Len(inst.last.properties)
        /\ \A i \in 1..Len(inst.last.properties) :
              inst.last.properties[i].value # S_false =>
                 Triple(instance_uri(inst.last.ret.instance_id),
                        predicate(get_field(fields, inst.last.properties[i].name)),
                        DenotedLiteral(inst.last.properties[i].value,
                                       get_field(fields, inst.last.properties[i].name).datatype))
                    \in inst.last.ret.graph

---------------------------------------------------------------------------
(* C20: lookup errors and deletes of both stores.                          *)

\* the records and directories of a store other than `id` are as before the call
OthersUntouched(now, before, id) ==
    /\ DOMAIN now = DOMAIN before \ {id}
    /\ \A k \in DOMAIN now : now[k] = before[k]

\* C20: update_shape, delete_shape and delete_instance raise for an identifier
\* that is not in the store and leave the store, in memory and on disk, as it was;
\* after a successful delete the identifier is in neither the in-memory map nor the
\* directories, and all other records are untouched.
C20_LookupErrorsAndDeletes ==
    /\ (shp.last.op \in {"update_shape", "delete_shape"}
           /\ shp.last.id \notin DOMAIN shp.pre.shapes) =>
          /\ shp.last.outcome = "ValueError"
          /\ shp.shapes = shp.pre.shapes
          /\ shp.dirs = shp.pre.dirs
    /\ (inst.last.op = "delete_instance" /\ inst.last.id \notin DOMAIN inst.pre.instances) =>
          /\ inst.last.outcome = "ValueError"
          /\ inst.instances = inst.pre.instances
          /\ inst.dirs = inst.pre.dirs
    /\ (shp.last.op = "delete_shape" /\ shp.last.outcome = "ok") =>
          /\ shp.last.id \notin DOMAIN shp.shapes
          /\ shp.last.id \notin DOMAIN shp.dirs
          /\ OthersUntouched(shp.shapes, shp.pre.shapes, shp.last.id)
          /\ OthersUntouched(shp.dirs, shp.pre.dirs, shp.last.id)
    /\ (inst.last.op = "delete_instance" /\ inst.last.outcome = "ok") =>
          /\ inst.last.id \notin DOMAIN inst.instances
          /\ inst.last.id \notin DOMAIN inst.dirs
          /\ OthersUntouched(inst.instances, inst.pre.instances, inst.last.id)
          /\ OthersUntouched(inst.dirs, inst.pre.dirs, inst.last.id)

\* an instance was deleted with its directory while another instance, two shapes
\* and their directories stayed
C20_Witness ==
    /\ inst.last.op = "delete_instance"
    /\ inst.last.outcome = "ok"
    /\ inst.last.id \in DOMAIN inst.pre.instances
    /\ inst.last.id \in DOMAIN inst.pre.dirs
    /\ DOMAIN inst.instances # {}
    /\ DOMAIN inst.dirs # {}
    /\ Cardinality(DOMAIN shp.shapes) = 2

---------------------------------------------------------------------------
(* C22: the syntax normalisation and the first parse.                      *)

\* C22: in every generate_shape / improve_shape run the text handed to the parser
\* at the first parse attempt is the normalised form of the extracted Turtle text.
C22_ParserGetsNormalizedText ==
    gen.parse1 # "none" => gen.handed = validate_and_fix_turtle(gen.extracted)

\* what the code does: the parser is given the extracted text itself
C22_ParserGetsExtractedText ==
    gen.parse1 # "none" => gen.handed = gen.extracted

\* a first parse of a text that the normalisation would have changed
C22_Witness ==
    /\ gen.parse1 # "none"
    /\ gen.handed # validate_and_fix_turtle(gen.handed)

---------------------------------------------------------------------------
(* C23: the minimum cardinality of imported fields.                        *)

\* a field as import_from_shacl records it: minCount absent, or the str of an int
ImportedMinCount(field) ==
    "minCount" \in DOMAIN field.constraints => py_type(field.constraints["minCount"]) = "str"

\* the imported minCount is at least 1
MinCountAtLeastOne(field) ==
    /\ "minCount" \in DOMAIN field.constraints
    /\ py_int(field.constraints["minCount"]).raised = "none"
    /\ py_int(field.constraints["minCount"]).text \notin {S_0}
    /\ Head(py_int(field.constraints["minCount"]).text) # "-"

\* create_instance was called with one property, an empty value for a known field
\* whose minCount is as import_from_shacl records it
EmptyValueForImported ==
    /\ inst.last.op = "create_instance"
    /\ Len(inst.last.properties) = 1
    /\ HasKey(fields, inst.last.properties[1].name)
    /\ ~py_bool(inst.last.properties[1].value)
    /\ ImportedMinCount(get_field(fields, inst.last.properties[1].name))

\* C23: an empty value for an imported field with minCount >= 1 makes create_instance
\* fail with the validation error (ValueError naming the field) of every other
\* invalid value, not with another error; an empty value for a field with no
\* minCount or minCount 0 is not rejected on cardinality grounds.
C23_MinCountEnforced ==
    EmptyValueForImported =>
        LET prop == inst.last.properties[1]
            field == get_field(fields, prop.name)
        IN  IF MinCountAtLeastOne(field)
            THEN /\ inst.last.outcome = "ValueError"
                 /\ inst.last.field = prop.name
            ELSE /\ inst.last.outcome # "TypeError"
                 /\ inst.last.outcome = "ValueError"
                       => validate_datatype_and_pattern(field, prop.value) = "False"

\* what does hold: with a minCount recorded as a str the comparison raises TypeError
\* for every empty value, and without a minCount the cardinality test rejects nothing
C23_MinCountRaises ==
    EmptyValueForImported =>
        LET prop == inst.last.properties[1]
            field == get_field(fields, prop.name)
        IN  IF "minCount" \in DOMAIN field.constraints
            THEN inst.last.outcome = "TypeError" /\ inst.instances = inst.pre.instances
            ELSE /\ inst.last.outcome # "TypeError"
                 /\ inst.last.outcome = "ValueError"
                       => validate_datatype_and_pattern(field, prop.value) = "False"

\* an empty value for the imported field age, whose minCount is '1'
C23_Witness ==
    /\ EmptyValueForImported
    /\ MinCountAtLeastOne(get_field(fields, inst.last.properties[1].name))

---------------------------------------------------------------------------
(* C24: the timestamps of the Shape Store. One shape id is added, updated  *)
(* and deleted while the clock stands still or advances; a second id is    *)
(* only ever updated, which the store refuses.                             *)

D2 == <<"d", "2">>
S_s1 == <<"s", "1">>

ShapesAddShape == ShpAdd({S_s1}, {G1}, {PyNone, D1}, {0, 1}, {"ok", "serialize_fails"})
ShapesUpdateShape == ShpUpdate(ShapeIds, {G2}, {PyNone, D2}, {0, 1}, {"ok", "metadata_fails"})
ShapesDeleteShape == ShpDelete({S_s1}, {"ok"})

NextShapes ==
    \/ ShapesAddShape
    \/ ShapesUpdateShape
    \/ ShapesDeleteShape

SpecShapes == InitStores /\ [][NextShapes]_vars

\* C24: every shape in the store has created_at <= updated_at; update_shape replaces
\* the graph, sets updated_at to the current time, leaves created_at, shape_id and
\* legal_text as they were, and changes the description only when a description
\* other than None is passed.
C24_ShapeTimestamps ==
    /\ \A id \in DOMAIN shp.shapes : shp.shapes[id].created_at <= shp.shapes[id].updated_at
    /\ (shp.last.op = "update_shape" /\ shp.last.outcome # "ValueError") =>
          LET old == shp.pre.shapes[shp.last.id]
              new == shp.shapes[shp.last.id]
          IN  /\ new.graph = shp.last.graph
              /\ new.updated_at = shp.last.now
              /\ new.created_at = old.created_at
              /\ new.shape_id = old.shape_id
              /\ new.legal_text = old.legal_text
              /\ new.description = (IF shp.last.description # PyNone
                                    THEN shp.last.description ELSE old.description)

\* a later update without a description of a shape that has one
C24_Witness ==
    /\ shp.last.op = "update_shape"
    /\ shp.last.outcome = "ok"
    /\ shp.last.description = PyNone
    /\ shp.pre.shapes[shp.last.id].description = D1
    /\ shp.pre.shapes[shp.last.id].graph # shp.last.graph
    /\ shp.shapes[shp.last.id].created_at < shp.last.now

---------------------------------------------------------------------------
(* ExampleStore over a directory of example records. A record is a         *)
(* directory holding legal_text.txt and shape.ttl; the in-memory list holds *)
(* what load_all_examples read from the records, in the order iterdir      *)
(* yielded them.                                                           *)

MaxExampleDirs == 3      \* the records example_0 .. example_(MaxExampleDirs - 1)

\* examples_dir / f"example_{index}"
example_dir(index) == Numbered("example_", index)

\* a record under a name of the user's choice
S_tax_dir == <<"tax_", "1">>

ExampleDirNames == {example_dir(i) : i \in 0..(MaxExampleDirs - 1)} \cup {S_tax_dir}

\* what legal_text.txt of the record `dir` holds
LegalTextIn(dir) == <<"text of ">> \o dir

\* add_example(legal_text_path, shacl_shape_path, annotations_path) for the files of
\* the record `dir`: the mapping appended to the list
ExampleMapping(dir) ==
    [text |-> LegalTextIn(dir), shape |-> <<"shape of ">> \o dir, annotations |-> <<>>]

\* the orders in which iterdir may yield the directories
Orders(names) ==
    {order \in [1..Cardinality(names) -> names] :
        \A i, j \in 1..Cardinality(names) : order[i] = order[j] => i = j}

\* load_all_examples(): every directory holding legal_text.txt and shape.ttl is
\* read and appended, in the order iterdir yields them
RECURSIVE load_all_examples(_, _, _)
load_all_examples(examples, dirs, order) ==
    IF order = <<>> THEN examples
    ELSE IF {"legal_text.txt", "shape.ttl"} \subseteq dirs[Head(order)]
         THEN load_all_examples(Append(examples, ExampleMapping(Head(order))), dirs,
                                Tail(order))
         ELSE load_all_examples(examples, dirs, Tail(order))

\* list.pop(index) for 0 <= index < len
Pop(list, index) ==
    SubSeq(list, 1, index) \o SubSeq(list, index + 2, Len(list))

\* delete_example(index): for an index of the list the directory example_<index>
\* is removed if it exists, then the list is popped; a failing removal raises
\* before the pop
delete_example(st, index, outcome, left) ==
    IF ~(0 <= index /\ index < Len(st.examples))
    THEN [examples |-> st.examples, dirs |-> st.dirs, outcome |-> "ok"]
    ELSE IF example_dir(index) \in DOMAIN st.dirs /\ outcome # "ok"
    THEN [examples |-> st.examples,
          dirs |-> remove_dir(st.dirs, example_dir(index), outcome, left),
          outcome |-> "OSError"]
    ELSE [examples |-> Pop(st.examples, index),
          dirs |-> remove_dir(st.dirs, example_dir(index), "ok", left),
          outcome |-> "ok"]

\* an ExampleStore constructed over the directories `dirs`, nothing loaded yet
ExampleStoreOver(dirs) ==
    [feedback_history |-> <<>>, has_store |-> TRUE, examples |-> <<>>,
     dirs |-> dirs, loaded |-> FALSE,
     pre |-> [examples |-> <<>>, dirs |-> dirs],
     last |-> [op |-> "none", index |-> 0, outcome |-> "none"]]

InitExamples ==
    /\ fields = <<>>
    /\ disk = [exists |-> FALSE, data |-> <<>>]
    /\ pre = [fields |-> fields, disk |-> disk]
    /\ last = NoCall
    /\ gen = GenIdle
    /\ imp = ImpIdle
    /\ \E names \in SUBSET ExampleDirNames :
          ctx \in {ExampleStoreOver([d \in names |-> files]) :
                      files \in {{"legal_text.txt", "shape.ttl"}}}
    /\ inst = InstIdle
    /\ shp = ShpIdle
    /\ app = AppIdle
    /\ wr = WrIdle

\* init_components: example_store.load_all_examples(), once
ExLoadAll ==
    /\ ~ctx.loaded
    /\ \E order \in Orders(DOMAIN ctx.dirs) :
          ctx' = [ctx EXCEPT
                    !.examples = load_all_examples(ctx.examples, ctx.dirs, order),
                    !.loaded = TRUE,
                    !.pre = [examples |-> ctx.examples, dirs |-> ctx.dirs],
                    !.last = [op |-> "load_all_examples", index |-> 0, outcome |-> "ok"]]
    /\ UNCHANGED <<fields, disk, pre, last, gen, imp, inst, shp, app, wr>>

\* the Delete button of an example, and a call with an index outside the list
ExDelete ==
    /\ ctx.loaded
    /\ \E index \in (0 - 1)..MaxExampleDirs :
        \E x \in Removals(ctx.dirs, example_dir(IF index < 0 THEN 0 ELSE index),
                          {"ok", "rmdir_fails"}) :
            \E r \in {delete_example(ctx, index, x.outcome, x.left)} :
                ctx' = [ctx EXCEPT
                          !.examples = r.examples, !.dirs = r.dirs,
                          !.pre = [examples |-> ctx.examples, dirs |-> ctx.dirs],
                          !.last = [op |-> "delete_example", index |-> index,
                                    outcome |-> r.outcome]]
    /\ UNCHANGED <<fields, disk, pre, last, gen, imp, inst, shp, app, wr>>

NextExamples ==
    \/ ExLoadAll
    \/ ExDelete

SpecExamples == InitExamples /\ [][NextExamples]_vars

\* the record a loaded example was read from
RecordOf(example) == CHOOSE d \in ExampleDirNames : LegalTextIn(d) = example.text

\* C25: on a loaded store, the persisted record removed by a delete_example call
\* is the record of the example the call removed from the in-memory list, and the
\* records of the remaining examples still exist; an index outside the list
\* changes nothing in memory or on disk.
C25_DeleteRemovesItsRecord ==
    (ctx.has_store /\ ctx.last.op = "delete_example" /\ ctx.last.outcome = "ok") =>
        IF 0 <= ctx.last.index /\ ctx.last.index < Len(ctx.pre.examples)
        THEN /\ ctx.examples = Pop(ctx.pre.examples, ctx.last.index)
             /\ DOMAIN ctx.dirs =
                   DOMAIN ctx.pre.dirs \ {RecordOf(ctx.pre.examples[ctx.last.index + 1])}
             /\ \A i \in 1..Len(ctx.examples) : RecordOf(ctx.examples[i]) \in DOMAIN ctx.dirs
        ELSE ctx.examples = ctx.pre.examples /\ ctx.dirs = ctx.pre.dirs

\* what does hold: the list is popped at the index, the directory named
\* example_<index> is what is removed, and an index outside the list changes nothing
C25_DeleteRemovesIndexedDir ==
    (ctx.has_store /\ ctx.last.op = "delete_example" /\ ctx.last.outcome = "ok") =>
        IF 0 <= ctx.last.index /\ ctx.last.index < Len(ctx.pre.examples)
        THEN /\ ctx.examples = Pop(ctx.pre.examples, ctx.last.index)
             /\ DOMAIN ctx.dirs = DOMAIN ctx.pre.dirs \ {example_dir(ctx.last.index)}
        ELSE ctx.examples = ctx.pre.examples /\ ctx.dirs = ctx.pre.dirs

\* a second delete on records example_0, example_1 loaded in name order: the list
\* loses the example of example_1 and no directory is removed
C25_Witness ==
    /\ ctx.has_store
    /\ ctx.last.op = "delete_example"
    /\ ctx.last.index = 0
    /\ ctx.pre.examples = <<ExampleMapping(example_dir(1))>>
    /\ ctx.examples = <<>>
    /\ ctx.dirs = ctx.pre.dirs
    /\ example_dir(1) \in DOMAIN ctx.dirs

---------------------------------------------------------------------------
(* C26: where the constraints of an imported field come from.              *)

\* the nodes a field links to with ff:objectConstraints / ff:usageConstraints
Linked(g, field_uri, link) ==
    {Objects(g, field_uri, link)[i] : i \in 1..Len(Objects(g, field_uri, link))}

\* the nested property constraints of the field's own node shapes whose sh:path is
\* the field's URI
OwnProperties(g, field_uri) ==
    {g[i].o : i \in {j \in 1..Len(g) :
                        /\ g[j].s \in Linked(g, field_uri, "ff:usageConstraints")
                        /\ g[j].p = "sh:property"
                        /\ InGraph(g, g[j].o, "sh:path", field_uri)}}

\* every recorded constraint of field_uri is a value of one of its own nodes
FromOwnNodes(g, ao, field_uri, c) ==
    /\ "targetObjectsOf" \in DOMAIN c =>
          \E p \in Linked(g, field_uri, "ff:objectConstraints"), i \in 1..Len(g) :
              g[i].s = p /\ g[i].p = "sh:targetObjectsOf" /\ g[i].o.s = c["targetObjectsOf"]
    /\ "datatype" \in DOMAIN c =>
          \E p \in Linked(g, field_uri, "ff:objectConstraints") :
              /\ Truthy(Value(g, p, "sh:datatype"))
              /\ shape_constraints(g, p, NoConstraints)["datatype"] = c["datatype"]
    /\ "allowed_values" \in DOMAIN c =>
          \E p \in Linked(g, field_uri, "ff:objectConstraints") :
              \A k \in 1..Len(c["allowed_values"]) :
                  \E i \in 1..Len(g) :
                      /\ g[i].s = p /\ g[i].p = "sh:in"
                      /\ c["allowed_values"][k] = value_option(ao, g[i].o)
    /\ "targetSubjectsOf" \in DOMAIN c =>
          \E n \in Linked(g, field_uri, "ff:usageConstraints"), i \in 1..Len(g) :
              g[i].s = n /\ g[i].p = "sh:targetSubjectsOf" /\ g[i].o.s = c["targetSubjectsOf"]
    /\ \A count \in {"minCount", "maxCount"} :
          count \in DOMAIN c =>
              \E q \in OwnProperties(g, field_uri), i \in 1..Len(g) :
                  g[i].s = q /\ g[i].p = "sh:" \o count /\ g[i].o.s = c[count]

\* a document with the two DataFields ff#a and ff#b was imported
TwoFieldsImported ==
    /\ imp.pc = "returned"
    /\ imp.doc.kind = "two"
    /\ InGraph(imp.g, F(S_b), "rdf:type", FF_DataField)

\* C26: the constraints recorded for an imported field come only from the nodes its
\* own objectConstraints / usageConstraints links lead to: in a document with two
\* DataFields no field has a value of the other field's property shape or node
\* shape, also when its linked node is untyped and the fallback scan is used, and a
\* nested property constraint with another sh:path contributes no minCount/maxCount.
C26_ConstraintsFromOwnNodes ==
    TwoFieldsImported =>
        \A i \in 1..Len(fields) :
            fields[i].key \in imp.result =>
                FromOwnNodes(imp.g, imp.answer_options, F(fields[i].key),
                             fields[i].field.constraints)

\* the same for documents in which every linked node is typed
C26_TypedConstraintsFromOwnNodes ==
    (/\ TwoFieldsImported
     /\ \A i \in 1..Len(imp.g) :
           imp.g[i].p \in {"ff:objectConstraints", "ff:usageConstraints"} =>
               \E j \in 1..Len(imp.g) : imp.g[j].s = imp.g[i].o /\ imp.g[j].p = "rdf:type") =>
        \A i \in 1..Len(fields) :
            fields[i].key \in imp.result =>
                FromOwnNodes(imp.g, imp.answer_options, F(fields[i].key),
                             fields[i].field.constraints)

\* what does hold: a field whose linked nodes are typed takes its property-shape
\* and node-shape values from them
C26_TypedShapeValuesFromOwnNodes ==
    TwoFieldsImported =>
        \A i \in 1..Len(fields) :
            (/\ fields[i].key \in imp.result
             /\ \A n \in Linked(imp.g, F(fields[i].key), "ff:objectConstraints")
                       \cup Linked(imp.g, F(fields[i].key), "ff:usageConstraints") :
                   \E j \in 1..Len(imp.g) : imp.g[j].s = n /\ imp.g[j].p = "rdf:type") =>
                FromOwnNodes(imp.g, imp.answer_options, F(fields[i].key),
                             [k \in DOMAIN fields[i].field.constraints
                                       \ {"minCount", "maxCount"} |->
                                 fields[i].field.constraints[k]])

\* ff#b, untyped, was imported beside the typed ff#a and has its datatype
C26_Witness ==
    /\ TwoFieldsImported
    /\ S_b \in imp.result
    /\ \E i \in 1..Len(fields) :
          /\ fields[i].key = S_b
          /\ "datatype" \in DOMAIN fields[i].field.constraints
          /\ fields[i].field.constraints["datatype"] = S_xsd_integer

---------------------------------------------------------------------------
(* C27: the examples of an imported field.                                 *)

\* C27: for every imported field with allowed values the examples are the labels of
\* its allowed_values entries, in the same order; without allowed values the
\* examples are empty.
C27_ExamplesAreLabels ==
    \A i \in 1..Len(fields) :
        LET field == fields[i].field
        IN  IF "allowed_values" \in DOMAIN field.constraints
            THEN field.examples =
                    [k \in 1..Len(field.constraints["allowed_values"]) |->
                        field.constraints["allowed_values"][k].label]
            ELSE field.examples = <<>>

\* C27, as the code has it: the example of an allowed value is its label followed by
\* its id in parentheses, `label (id)`, in the order of allowed_values; without
\* allowed values the examples are empty.
C27_ExamplesAreLabelAndId ==
    \A i \in 1..Len(fields) :
        LET field == fields[i].field
        IN  IF "allowed_values" \in DOMAIN field.constraints
            THEN field.examples =
                    [k \in 1..Len(field.constraints["allowed_values"]) |->
                        field.constraints["allowed_values"][k].label
                        \o <<" ", "(">> \o field.constraints["allowed_values"][k].id
                        \o <<")">>]
            ELSE field.examples = <<>>

\* an imported field with two allowed values whose label and id differ in the first
C27_Witness ==
    /\ imp.pc = "returned"
    /\ \E i \in 1..Len(fields) :
          /\ fields[i].key \in imp.result
          /\ "allowed_values" \in DOMAIN fields[i].field.constraints
          /\ Len(fields[i].field.constraints["allowed_values"]) = 2
          /\ fields[i].field.constraints["allowed_values"][1].label
                # fields[i].field.constraints["allowed_values"][1].id
          /\ Len(fields[i].field.examples) = 2

---------------------------------------------------------------------------
(* C21: two processes over one registry file. Each constructs its own      *)
(* DataFieldRegistry (which loads the file) and calls add_field; nothing    *)
(* orders the calls of one process against those of the other.             *)

\* the fields the two processes add
WriterFields ==
    { DataField(S_ages, S_ex \o S_ages, S_xsd_string, S_field_for \o S_ages,
                <<>>, <<S_Years>>, NoConstraints),
      DataField(S_zip, S_ex \o S_zip, S_xsd_string, S_field_for \o S_zip,
                <<S_in_old_age>>, <<S_old>>, NoConstraints) }

InitWriters ==
    /\ fields = <<>>
    /\ disk = [exists |-> FALSE, data |-> <<>>]
    /\ pre = [fields |-> fields, disk |-> disk]
    /\ last = NoCall
    /\ gen = GenIdle
    /\ imp = ImpIdle
    /\ ctx = CtxIdle
    /\ inst = InstIdle
    /\ shp = ShpIdle
    /\ app = AppIdle
    /\ wr = WrIdle

\* DataFieldRegistry(storage_path) in process w: self.fields = {}, then load()
WrLoad ==
    \E w \in Writers :
        /\ wr' = [wr EXCEPT
                    !.reg[w] = [loaded |-> TRUE, fields |-> load(<<>>, disk), added |-> {}],
                    !.last = [op |-> "load", writer |-> w, name |-> <<>>, raised |-> FALSE]]
        /\ UNCHANGED <<fields, disk, pre, last, gen, imp, ctx, inst, shp, app>>

\* add_field(field) in process w
WrAddField ==
    \E w \in Writers, field \in WriterFields, outcome \in SaveOutcomes :
        /\ wr.reg[w].loaded
        /\ \E r \in {add_field(wr.reg[w].fields, disk, field, outcome)} :
              /\ disk' = r.disk
              /\ wr' = [wr EXCEPT
                          !.reg[w].fields = r.fields,
                          !.reg[w].added = IF r.raised THEN @ ELSE @ \cup {field.name},
                          !.last = [op |-> "add_field", writer |-> w, name |-> field.name,
                                    raised |-> r.raised]]
        /\ UNCHANGED <<fields, pre, last, gen, imp, ctx, inst, shp, app>>

NextWriters ==
    \/ WrLoad
    \/ WrAddField

SpecWriters == InitWriters /\ [][NextWriters]_vars

\* the names the registry file holds
PersistedNames == {disk.data[i].key.text : i \in 1..Len(disk.data)}

\* C21: nothing excludes the writers from one another: the file is what the writer
\* that saved last had in memory, so a field another writer saved after that writer
\* loaded is lost from the file; the fields one writer added one after the other on
\* the registry it loaded are all in the file after its save.
C21_LastWriterWins ==
    (wr.last.op = "add_field" /\ ~wr.last.raised) =>
        /\ disk.exists
        /\ disk.data = DumpFields(wr.reg[wr.last.writer].fields)
        /\ PersistedNames = Keys(wr.reg[wr.last.writer].fields)
        /\ wr.reg[wr.last.writer].added \subseteq PersistedNames

\* the lost update: both writers loaded, each added and saved a different field,
\* and the file lacks the field of the first
C21_Witness ==
    /\ wr.last.op = "add_field"
    /\ ~wr.last.raised
    /\ wr.reg["w1"].added = {S_ages}
    /\ wr.reg["w2"].added = {S_zip}
    /\ PersistedNames = {S_zip}

\* one writer added both fields one after the other: both are in the file
C21_WitnessSequential ==
    /\ wr.last.op = "add_field"
    /\ ~wr.last.raised
    /\ ~wr.reg["w2"].loaded
    /\ wr.reg["w1"].added = {S_ages, S_zip}
    /\ PersistedNames = {S_ages, S_zip}

---------------------------------------------------------------------------
(* The Generation Journey page: the Generate button and the Improve Shape  *)
(* button. A request runs from the button to the end of its handler; the   *)
(* handler waits for the completion service once or twice. events lists    *)
(* what the request has done, in the order the code does it.               *)

MaxImproves == 1     \* Improve Shape requests that end with a feedback entry

\* the answers of the completion service on this page
AppResponses ==
    {r \in Responses :
        r.text \in { <<Ex(S_age), TypeTok, Semi, Dt(S_integer), Dot>>,
                     <<Ex(S_zip), TypeTok, Semi, Other, Dot, Ex(S_income), Dt(S_decimal),
                       Dot>> }}

\* the Graph a parsed answer gives
graph_of(text) == text.text

\* Graph.serialize(format='turtle')
serialize(graph) == [format |-> "turtle", graph |-> graph]

\* str(hash(legal_text)) is the text id; the legal text of a text id
legal_text_of(text_id) == <<"l">> \o text_id

S_generated == <<"G", "e", "n", "e", "r", "a", "t", "e", "d">>

InitApp ==
    /\ fields = <<>>
    /\ disk = [exists |-> FALSE, data |-> <<>>]
    /\ pre = [fields |-> fields, disk |-> disk]
    /\ last = NoCall
    /\ gen = GenIdle
    /\ imp = ImpIdle
    /\ ctx = CtxIdle
    /\ inst = InstIdle
    /\ shp = ShpIdle
    /\ app = AppIdle
    /\ wr = WrIdle

\* the Generate button with a legal text: generator.generate_shape(legal_text,
\* text_id) up to its completion request
AppGenerate ==
    \E text_id \in TextIds :
        /\ app.stage = "idle"
        /\ pre' = [fields |-> fields, disk |-> disk]
        /\ gen' = [GenIdle EXCEPT
                     !.pc = "await_completion", !.kind = "generate_shape", !.llmCalls = 1,
                     !.text_id = text_id,
                     !.examples = get_relevant_examples(ctx, text_id),
                     !.feedback = get_relevant_feedback(ctx, text_id)]
        /\ app' = [app EXCEPT !.stage = "busy", !.request = "generate", !.outcome = "none",
                              !.events = <<"completion">>, !.shapes_before = shp.shapes]
        /\ UNCHANGED <<fields, disk, last, imp, ctx, inst, shp, wr>>

\* the Improve Shape button, shown when the session holds a current_shape:
\* generator.improve_shape(current_shape, feedback, current_text_id) up to its
\* completion request
AppImprove ==
    /\ app.stage = "idle"
    /\ app.has_shape
    /\ Len(ctx.feedback_history) < MaxImproves
    /\ pre' = [fields |-> fields, disk |-> disk]
    /\ gen' = [GenIdle EXCEPT
                 !.pc = "await_completion", !.kind = "improve_shape", !.llmCalls = 1,
                 !.text_id = app.current_text_id,
                 !.feedback = get_relevant_feedback(ctx, app.current_text_id)]
    /\ app' = [app EXCEPT !.stage = "busy", !.request = "improve", !.outcome = "none",
                          !.events = <<"completion">>, !.shapes_before = shp.shapes]
    /\ UNCHANGED <<fields, disk, last, imp, ctx, inst, shp, wr>>

\* the completion request raises: the handler ends with the exception
AppServiceError ==
    /\ app.stage = "busy"
    /\ gen.pc \in {"await_completion", "await_repair"}
    /\ gen' = [gen EXCEPT !.pc = "raised"]
    /\ app' = [app EXCEPT !.stage = "idle", !.outcome = "generation_failed"]
    /\ UNCHANGED <<fields, disk, pre, last, imp, ctx, inst, shp, wr>>

\* the rest of the Generate handler after generate_shape returned: the session
\* state is set and the shape is added to the Shape Store
AppStoreGenerated(text, outcome) ==
    \E r \in {add_shape(shp, gen.text_id, legal_text_of(gen.text_id), graph_of(text),
                        S_generated, shp.clock, outcome)} :
        /\ shp' = [shapes |-> r.shapes, dirs |-> r.dirs, clock |-> shp.clock,
                   pre |-> [shapes |-> shp.shapes, dirs |-> shp.dirs],
                   last |-> [op |-> "add_shape", id |-> gen.text_id,
                             graph |-> graph_of(text), description |-> S_generated,
                             outcome |-> r.outcome, now |-> shp.clock]]
        /\ app' = [app EXCEPT
                     !.stage = "idle",
                     !.outcome = IF r.outcome = "ok" THEN "ok" ELSE "store_failed",
                     !.has_shape = TRUE,
                     !.current_shape = graph_of(text),
                     !.current_text_id = gen.text_id,
                     !.events = @ \o (IF new_fields_of(text, fields) # <<>>
                                      THEN <<"registry_update">> ELSE <<>>)
                                  \o <<"shape_add">>]
        /\ UNCHANGED ctx

\* the rest of the Improve Shape handler after improve_shape returned: the feedback
\* is added to the context and the session's current_shape is replaced
AppKeepImproved(text) ==
    /\ ctx' = [ctx EXCEPT !.feedback_history =
                  Append(@, [text_id |-> app.current_text_id,
                             feedback |-> Numbered("f", Len(@) + 1),
                             improved_shape |-> serialize(graph_of(text))])]
    /\ app' = [app EXCEPT
                 !.stage = "idle", !.outcome = "ok",
                 !.current_shape = graph_of(text),
                 !.events = @ \o (IF new_fields_of(text, fields) # <<>>
                                  THEN <<"registry_update">> ELSE <<>>)]
    /\ UNCHANGED shp

\* an answer of the completion service arrives (attempt 1: the generation, attempt
\* 2: the repair) and the handler runs to its next request or to its end
AppAnswer(attempt) ==
    \E text \in AppResponses, failAt \in 0..1, outcome \in {"ok", "mkdir_fails"} :
        /\ app.stage = "busy"
        /\ gen.pc = (IF attempt = 1 THEN "await_completion" ELSE "await_repair")
        /\ IF text.parses
           THEN /\ GenFinish(text, attempt, failAt)
                /\ IF failAt # 0
                   THEN /\ outcome = "ok"
                        /\ app' = [app EXCEPT !.stage = "idle",
                                              !.outcome = "generation_failed",
                                              !.events = @ \o <<"registry_update">>]
                        /\ UNCHANGED <<ctx, shp>>
                   ELSE IF app.request = "generate"
                        THEN AppStoreGenerated(text, outcome)
                        ELSE outcome = "ok" /\ AppKeepImproved(text)
           ELSE /\ failAt = 0 /\ outcome = "ok"
                /\ gen' = IF attempt = 1
                          THEN [gen EXCEPT !.pc = "await_repair", !.parse1 = "fail",
                                           !.llmCalls = @ + 1, !.repairCalls = @ + 1,
                                           !.extracted = text.text,
                                           !.handed = handed_to_parser(text.text)]
                          ELSE on_second_failure(gen)
                /\ app' = IF attempt = 1
                          THEN [app EXCEPT !.events = @ \o <<"repair">>]
                          ELSE [app EXCEPT !.stage = "idle",
                                           !.outcome = "generation_failed"]
                /\ UNCHANGED <<fields, disk, ctx, shp>>
        /\ UNCHANGED <<pre, last, imp, inst, wr>>

AppFirstAnswer == AppAnswer(1)
AppRepairAnswer == AppAnswer(2)

NextApp ==
    \/ AppGenerate
    \/ AppImprove
    \/ AppServiceError
    \/ AppFirstAnswer
    \/ AppRepairAnswer

SpecApp == InitApp /\ [][NextApp]_vars

\* the place of an event in a request
Rank(event) ==
    CASE event = "completion" -> 1
      [] event = "repair" -> 2
      [] event = "registry_update" -> 3
      [] OTHER -> 4

\* completion call, at most one repair, registry update, Shape Store add
InOrder(events) ==
    /\ events # <<>> => events[1] = "completion"
    /\ \A i, j \in 1..Len(events) : i < j => Rank(events[i]) < Rank(events[j])

\* the order of a request, the Shape Store add only after a successful generation,
\* and the Shape Store untouched by a request whose generation failed
OrderAndAddOnSuccess ==
    /\ InOrder(app.events)
    /\ (\E i \in 1..Len(app.events) : app.events[i] = "shape_add") =>
          /\ app.request = "generate"
          /\ gen.pc = "returned"
          /\ \A k \in 1..Len(gen.new_fields) : HasKey(fields, gen.new_fields[k].name)
    /\ (app.stage = "idle" /\ app.outcome = "generation_failed") =>
          shp.shapes = app.shapes_before

\* C28: the events of a request occur in the order completion call, optional single
\* repair, registry update, Shape Store add; a shape is added only when the
\* generation succeeded, so a request whose generation fails leaves the Shape Store
\* unchanged; after a successful Improve Shape request the Shape Store's graph for
\* the current text id is the improved graph.
C28_GenerationFlow ==
    /\ OrderAndAddOnSuccess
    /\ (app.stage = "idle" /\ app.request = "improve" /\ app.outcome = "ok") =>
          /\ app.current_text_id \in DOMAIN shp.shapes
          /\ shp.shapes[app.current_text_id].graph = graph_of([text |-> gen.text])

\* what does hold: the order, the add on success only, and an Improve Shape request
\* that leaves the Shape Store as it was
C28_ImproveLeavesShapeStore ==
    /\ OrderAndAddOnSuccess
    /\ (app.stage = "idle" /\ app.request = "improve") => shp = [shp EXCEPT !.shapes = app.shapes_before]

\* a successful Improve Shape request whose graph differs from the stored one
C28_Witness ==
    /\ app.stage = "idle"
    /\ app.request = "improve"
    /\ app.outcome = "ok"
    /\ app.events = <<"completion", "repair", "registry_update">>
    /\ app.current_text_id \in DOMAIN shp.shapes
    /\ shp.shapes[app.current_text_id].graph # app.current_shape

---------------------------------------------------------------------------
(* C29: identifiers that are already taken. Two names with one key are     *)
(* created with different properties, and one shape id is added with       *)
(* different graphs at different times.                                    *)

DupCreateInstance ==
    InstCreate(Calls({S_Jane_Doe, S_jane_hyphen_doe},
                     {<<>>, <<Prop(S_age, S_17)>>, <<Prop(S_income, S_1_5)>>}, {"ok"}))
DupAddShape == ShpAdd({S_s1}, {G1, G2}, {PyNone, D1}, {0, 1}, {"ok"})

NextDuplicates ==
    \/ DupCreateInstance
    \/ DupAddShape

SpecDuplicates == InitStores /\ [][NextDuplicates]_vars

\* C29: create_instance with a name that normalizes to an existing key and add_shape
\* with an id already present succeed and replace the earlier record: the number of
\* records does not grow, and the record under the key is the new one, with the new
\* properties / graph and, for a shape, the new created_at.
C29_DuplicatesReplace ==
    /\ (inst.last.op = "create_instance"
          /\ safe_id(inst.last.id) \in DOMAIN inst.pre.instances) =>
          /\ inst.last.outcome = "ok"
          /\ DOMAIN inst.instances = DOMAIN inst.pre.instances
          /\ inst.instances[safe_id(inst.last.id)] = inst.last.ret
          /\ inst.last.ret.properties = inst.last.properties
          /\ DOMAIN inst.dirs = DOMAIN inst.pre.dirs
    /\ (shp.last.op = "add_shape" /\ shp.last.id \in DOMAIN shp.pre.shapes) =>
          /\ shp.last.outcome = "ok"
          /\ DOMAIN shp.shapes = DOMAIN shp.pre.shapes
          /\ shp.shapes[shp.last.id] =
                ShaclShape(shp.last.id, shp.pre.shapes[shp.last.id].legal_text,
                           shp.last.graph, shp.last.now, shp.last.now,
                           shp.last.description)
          /\ DOMAIN shp.dirs = DOMAIN shp.pre.dirs

\* 'Jane Doe' created after 'jane-doe': the properties given first are gone
C29_Witness ==
    /\ inst.last.op = "create_instance"
    /\ inst.last.id = S_Jane_Doe
    /\ S_jane_doe \in DOMAIN inst.pre.instances
    /\ inst.pre.instances[S_jane_doe].properties = <<Prop(S_age, S_17)>>
    /\ inst.instances[S_jane_doe].properties = <<Prop(S_income, S_1_5)>>
    /\ Cardinality(DOMAIN inst.instances) = 1

\* a shape id added again later with another graph: the first created_at is gone
C29_WitnessShape ==
    /\ shp.last.op = "add_shape"
    /\ shp.last.id \in DOMAIN shp.pre.shapes
    /\ shp.pre.shapes[shp.last.id].graph # shp.last.graph
    /\ shp.pre.shapes[shp.last.id].created_at < shp.shapes[shp.last.id].created_at
    /\ Cardinality(DOMAIN shp.shapes) = 1

---------------------------------------------------------------------------
(* C30: the in-memory maps and the record directories.                     *)

\* C30: after every create_instance, delete_instance, add_shape, update_shape and
\* delete_shape, completed or failed, the keys of the in-memory map of a store are
\* the names of its record directories, also when the persistence step failed after
\* the map was changed.
C30_MemoryDiskAgreement ==
    /\ DOMAIN inst.instances = DOMAIN inst.dirs
    /\ DOMAIN shp.shapes = DOMAIN shp.dirs

\* what does hold: every record directory has its key in the map
C30_EveryDirectoryHasKey ==
    /\ DOMAIN inst.dirs \subseteq DOMAIN inst.instances
    /\ DOMAIN shp.dirs \subseteq DOMAIN shp.shapes

\* a create_instance whose mkdir failed: the key is in the map, no directory exists
C30_Witness ==
    /\ inst.last.op = "create_instance"
    /\ inst.last.outcome = "OSError"
    /\ safe_id(inst.last.id) \in DOMAIN inst.instances
    /\ safe_id(inst.last.id) \notin DOMAIN inst.dirs

=============================================================================
